---- MODULE Spec2Model ----
(***************************************************************************)
(* Model of the tango database data source (tangodb.db_access).            *)
(*                                                                         *)
(* The heap of Python objects is an arena: `nodes` holds the Node objects  *)
(* (and the plain dicts of the loaded documents that stand in a device     *)
(* list), `pmaps` holds the property containers.  An index into a          *)
(* sequence is the identity of the object.  Strings are TLA+ strings;      *)
(* lower(), split() and the regular expression of list_filter are computed *)
(* character by character.                                                 *)
(***************************************************************************)
EXTENDS Integers, Sequences, FiniteSets, TLC

VARIABLES
    nodes,                 \* arena of Node objects / raw document maps
    pmaps,                 \* arena of property containers (dict or Node)
    strong_node_ref,       \* DataSource._strong_node_ref
    personal_2_node,       \* DataSource._personal_2_node
    tango_name_2_node,     \* DataSource._tango_name_2_node
    property_attr_device,  \* YamlDataSource._property_attr_device
    aliases,               \* YamlDataSource._aliases
    last,                  \* the facade call just made and how it ended
    calls,                 \* the number of facade calls made so far
    class_name_2_node,     \* DataSource._class_name_2_node
    devices_info,          \* YamlDataSource._devices_info
    req,                   \* the handler that runs statement by statement
    ret                    \* what the query just made returned

vars == <<nodes, pmaps, strong_node_ref, personal_2_node, tango_name_2_node,
          property_attr_device, aliases, last, calls,
          class_name_2_node, devices_info, req, ret>>

\* the class index, the runtime table, the handler in flight and the
\* returned value: what the lifecycle and property handlers leave alone
runVars == <<class_name_2_node, devices_info, req, ret>>

treeVars == <<nodes, pmaps, strong_node_ref, personal_2_node,
              tango_name_2_node, property_attr_device>>

-----------------------------------------------------------------------------
(* Bounds of the model *)

\* the facade is called at most this many times after construction
MaxCalls == 3

-----------------------------------------------------------------------------
(* Strings *)

NONE == "<none>"

LowerChar(c) ==
    CASE c = "A" -> "a" [] c = "B" -> "b" [] c = "C" -> "c" [] c = "D" -> "d"
      [] c = "E" -> "e" [] c = "F" -> "f" [] c = "G" -> "g" [] c = "H" -> "h"
      [] c = "I" -> "i" [] c = "J" -> "j" [] c = "K" -> "k" [] c = "L" -> "l"
      [] c = "M" -> "m" [] c = "N" -> "n" [] c = "O" -> "o" [] c = "P" -> "p"
      [] c = "Q" -> "q" [] c = "R" -> "r" [] c = "S" -> "s" [] c = "T" -> "t"
      [] c = "U" -> "u" [] c = "V" -> "v" [] c = "W" -> "w" [] c = "X" -> "x"
      [] c = "Y" -> "y" [] c = "Z" -> "z" [] OTHER -> c

RECURSIVE Lower(_)
Lower(s) == IF s = "" THEN "" ELSE LowerChar(Head(s)) \o Lower(Tail(s))

\* str.split(sep) for a one-character separator
RECURSIVE SplitFrom(_, _, _)
SplitFrom(s, sep, cur) ==
    IF s = "" THEN <<cur>>
    ELSE IF Head(s) = sep THEN <<cur>> \o SplitFrom(Tail(s), sep, "")
    ELSE SplitFrom(Tail(s), sep, cur \o Head(s))

Split(s, sep) == SplitFrom(s, sep, "")

\* str.replace(old, new) for a one-character `old`
RECURSIVE Replace(_, _, _)
Replace(s, old, new) ==
    IF s = "" THEN ""
    ELSE (IF Head(s) = old THEN new ELSE Head(s)) \o Replace(Tail(s), old, new)

\* str(n) and int(s) on the counts of a property bag
ToStr(n) ==
    CASE n = 0 -> "0" [] n = 1 -> "1" [] n = 2 -> "2" [] n = 3 -> "3"
      [] n = 4 -> "4" [] OTHER -> "many"

ParseInt(s) ==
    CASE s = "0" -> 0 [] s = "1" -> 1 [] s = "2" -> 2 [] s = "3" -> 3
      [] s = "4" -> 4 [] OTHER -> -1

\* re.fullmatch(re, s, IGNORECASE) for a pattern of literal characters,
\* `.` and a postfix `*`
RECURSIVE ReFullMatch(_, _)
ReFullMatch(re, s) ==
    IF re = "" THEN s = ""
    ELSE LET c    == Head(re)
             rest == Tail(re)
             ok(x) == c = "." \/ LowerChar(c) = LowerChar(x)
         IN  IF rest # "" /\ Head(rest) = "*"
             THEN \/ ReFullMatch(Tail(rest), s)
                  \/ s # "" /\ ok(Head(s)) /\ ReFullMatch(re, Tail(s))
             ELSE s # "" /\ ok(Head(s)) /\ ReFullMatch(rest, Tail(s))

RECURSIVE SelectIn(_, _)
SelectIn(pattern, l) ==
    IF l = <<>> THEN <<>>
    ELSE (IF Head(l) # NONE /\ ReFullMatch(pattern, Head(l))
          THEN <<Head(l)>> ELSE <<>>) \o SelectIn(pattern, Tail(l))

list_filter(pattern, l) == SelectIn(Replace(pattern, "*", ".*"), l)

\* str.startswith
StartsWith(s, prefix) ==
    Len(s) >= Len(prefix) /\ SubSeq(s, 1, Len(prefix)) = prefix

\* x in l
InSeq(x, l) == \E i \in 1..Len(l) : l[i] = x

-----------------------------------------------------------------------------
(* Python objects *)

\* The value a Node holds under "properties": absent, a reference string,
\* a plain dict of the loaded document (not wrapped yet), or a Node.
NoProps      == [t |-> "none", ref |-> "", map |-> 0]
StrProps(s)  == [t |-> "str",  ref |-> s,  map |-> 0]
RawProps(m)  == [t |-> "raw",  ref |-> "", map |-> m]
NodeProps(m) == [t |-> "node", ref |-> "", map |-> m]

\* The value a Node holds under "device": absent, a plain list, a NodeList.
NoList        == [t |-> "none", items |-> <<>>]
RawList(l)    == [t |-> "raw", items |-> l]
NodeListOf(l) == [t |-> "NodeList", items |-> l]

\* Node(parent=parent): an empty mapping with a parent back-reference (0: None)
EmptyNode(parent) ==
    [parent |-> parent, server |-> NONE, personal_name |-> NONE,
     tango_name |-> NONE, class |-> NONE, alias |-> NONE,
     properties |-> NoProps, device |-> NoList]

\* One entry of a property container, in insertion order: a scalar or a list
PropEntry(k, scalar, vals) == [k |-> k, scalar |-> scalar, vals |-> vals]

\* CaseInsensitiveDict: keys are stored and looked up lower-cased
CIK(key)        == Lower(key)
CIHas(d, key)   == CIK(key) \in DOMAIN d
CIGet(d, key)   == IF CIHas(d, key) THEN d[CIK(key)] ELSE 0
CISet(d, key, n) == (CIK(key) :> n) @@ d
CIDel(d, key)   == [k \in DOMAIN d \ {CIK(key)} |-> d[k]]
EmptyDict       == [k \in {} |-> 0]

-----------------------------------------------------------------------------
(* The loaded documents *)

\* A device of a server document; props is absent, a reference string or
\* an inline map (given by its entries).
DocDevice(name, class, alias, pt, ref, entries) ==
    [tango_name |-> name, class |-> class, alias |-> alias,
     pt |-> pt, ref |-> ref, entries |-> entries]

\* Srv/1: a device with an alias and inline properties, and two devices
\* whose properties are the same reference to it
SharedDoc ==
    [server |-> "Srv", personal_name |-> "1",
     device |-> << DocDevice("a/b/c", "C", "t", "raw", "", <<PropEntry("q", TRUE, <<"1">>)>>),
                   DocDevice("a/b/d", "C", NONE, "str", "t/properties", <<>>),
                   DocDevice("a/b/e", "C", NONE, "str", "t/properties", <<>>) >>]

\* Srv/1 with one device that has neither alias nor properties
PlainDoc ==
    [server |-> "Srv", personal_name |-> "1",
     device |-> << DocDevice("A/B/F", "C", NONE, "none", "", <<>>) >>]

\* a class document: class C with a scalar and a list property
ClassDoc ==
    [class |-> "C",
     properties |-> << PropEntry("cp", TRUE, <<"7">>),
                       PropEntry("cl", FALSE, <<"1", "2">>) >>]

Forests == { <<>>, <<SharedDoc>>, <<PlainDoc, ClassDoc>> }

\* the database's own instance name (personal_name of DataSource.__init__)
Identities == {"2"}

EmptySource ==
    [nodes |-> <<>>, pmaps |-> <<>>, strong |-> {}, personal |-> EmptyDict,
     tango |-> EmptyDict]

\* One turn of the device loop of _parse_tango_server: the raw map of the
\* document stays in the server's list, create_device wraps a copy of it
\* (sharing the nested values) and the copy is what gets indexed.
ParseDevice(st, sid, info) ==
    LET mid   == Len(st.pmaps) + 1
        pm    == IF info.pt = "raw" THEN Append(st.pmaps, info.entries) ELSE st.pmaps
        props == CASE info.pt = "raw" -> RawProps(mid)
                   [] info.pt = "str" -> StrProps(info.ref)
                   [] OTHER -> NoProps
        raw   == [EmptyNode(0) EXCEPT !.tango_name = info.tango_name,
                                      !.class = info.class,
                                      !.alias = info.alias,
                                      !.properties = props]
        rid   == Len(st.nodes) + 1
        did   == Len(st.nodes) + 2
        dev   == [raw EXCEPT !.parent = sid]
        t1    == IF info.tango_name # NONE
                 THEN CISet(st.tango, Lower(info.tango_name), did) ELSE st.tango
        t2    == IF info.alias # NONE THEN CISet(t1, info.alias, did) ELSE t1
        srv   == st.nodes[sid]
    IN  [nodes |-> Append(Append([st.nodes EXCEPT ![sid].device =
                              NodeListOf(Append(srv.device.items, rid))], raw), dev),
         pmaps |-> pm,
         strong |-> st.strong \cup {did},
         personal |-> st.personal,
         tango |-> t2]

RECURSIVE ParseDevices(_, _, _)
ParseDevices(st, sid, infos) ==
    IF infos = <<>> THEN st
    ELSE ParseDevices(ParseDevice(st, sid, Head(infos)), sid, Tail(infos))

\* _parse_tango_server on one server document
ParseTangoServer(st, doc) ==
    LET sid   == Len(st.nodes) + 1
        pname == IF doc.personal_name # NONE THEN Lower(doc.personal_name) ELSE "None"
        dserver_name == doc.server \o "/" \o pname
        node  == [EmptyNode(0) EXCEPT !.server = doc.server,
                                     !.personal_name = doc.personal_name,
                                     !.device = NodeListOf(<<>>)]
        st1   == [st EXCEPT !.nodes = Append(st.nodes, node),
                            !.personal = CISet(st.personal, dserver_name, sid),
                            !.tango = CISet(st.tango, "dserver/" \o Lower(dserver_name), sid),
                            !.strong = st.strong \cup {sid}]
    IN  ParseDevices(st1, sid, doc.device)

\* _parse_all over the forest
RECURSIVE ParseAll(_, _)
ParseAll(st, forest) ==
    IF forest = <<>> THEN st
    ELSE IF "server" \in DOMAIN Head(forest)
         THEN ParseAll(ParseTangoServer(st, Head(forest)), Tail(forest))
         ELSE ParseAll(st, Tail(forest))

\* _parse_tango_class over the forest: the class documents, by class name
RECURSIVE ParseClasses(_, _)
ParseClasses(index, forest) ==
    IF forest = <<>> THEN index
    ELSE IF "server" \notin DOMAIN Head(forest) /\ "class" \in DOMAIN Head(forest)
         THEN ParseClasses((CIK(Head(forest).class) :> Head(forest)) @@ index,
                           Tail(forest))
         ELSE ParseClasses(index, Tail(forest))

\* _bootstrap_db: the database's own server and device
BootstrapDb(st, personal_name) ==
    LET sid == Len(st.nodes) + 1
        did == Len(st.nodes) + 2
        tango_name == "sys/database/" \o personal_name
        beacon == [EmptyNode(0) EXCEPT !.server = "DataBaseds",
                                       !.personal_name = personal_name,
                                       !.device = RawList(<<did>>),
                                       !.tango_name = tango_name]
        dbdev  == [EmptyNode(sid) EXCEPT !.class = "DataBase",
                                         !.tango_name = tango_name]
        t1 == CISet(st.tango, tango_name, did)
        t2 == CISet(t1, "dserver/databaseds/" \o personal_name, sid)
    IN  [st EXCEPT !.nodes = Append(Append(st.nodes, beacon), dbdev),
                   !.tango = t2,
                   !.personal = CISet(st.personal, "DataBaseds/" \o personal_name, sid)]

\* DataSource.__init__
NewDataSource(forest, personal_name) ==
    BootstrapDb(ParseAll(EmptySource, forest), personal_name)

NoCall == [op |-> "init", a |-> "", b |-> "", bag |-> <<>>, exc |-> ""]

\* no handler is in the middle of its statements
NoRequest ==
    [op |-> "none", pc |-> "idle", args |-> <<>>, node |-> 0, server |-> 0,
     list |-> NoList]

Init ==
    \E forest \in Forests, id \in Identities :
        LET src == NewDataSource(forest, id)
        IN  /\ nodes = src.nodes
            /\ pmaps = src.pmaps
            /\ strong_node_ref = src.strong
            /\ personal_2_node = src.personal
            /\ tango_name_2_node = src.tango
            /\ property_attr_device = EmptyDict
            /\ aliases = EmptyDict
            /\ last = NoCall
            /\ calls = 0
            /\ class_name_2_node = ParseClasses(EmptyDict, forest)
            /\ devices_info = <<>>
            /\ req = NoRequest
            /\ ret = <<>>

-----------------------------------------------------------------------------
(* Node.get and the property reference resolver *)

\* What a call hands back next to the heap it leaves behind
Got(exc, val, ns, pms) == [exc |-> exc, val |-> val, nodes |-> ns, pmaps |-> pms]

\* Node.get("properties") on node n.  A plain dict found under the key is
\* wrapped in a new Node (a copy of the dict) that replaces it in the node,
\* and the call returns `value`: the plain dict it found.
NodeGetProperties(ns, pms, n) ==
    LET p == ns[n].properties
    IN  IF p.t = "raw"
        THEN Got("", p, [ns EXCEPT ![n].properties = NodeProps(Len(pms) + 1)],
                 Append(pms, pms[p.map]))
        ELSE Got("", p, ns, pms)

\* Node.get(key) on node n for a key of the reference path
NodeGetKey(ns, pms, n, key) ==
    IF key = "properties" THEN NodeGetProperties(ns, pms, n)
    ELSE IF key \in {"server", "personal_name", "tango_name", "class", "alias"}
              /\ ns[n][key] # NONE
         THEN Got("", StrProps(ns[n][key]), ns, pms)
         ELSE Got("", NoProps, ns, pms)

\* The part of get_property_node and put_device_property that follows a
\* reference string: the first segment goes through get_node (a KeyError
\* when it is not indexed), the segments after it are keys of the target.
\* References of the modelled documents name one key of the target.
ResolveReference(ns, pms, tn2n, ref) ==
    LET properties_key == Split(ref, "/")
        node_refname   == properties_key[1]
    IN  IF ~CIHas(tn2n, node_refname) THEN Got("KeyError", NoProps, ns, pms)
        ELSE CASE Len(properties_key) = 2 ->
                  NodeGetKey(ns, pms, CIGet(tn2n, node_refname), properties_key[2])

\* DataSource.get_property_node.  found = FALSE when the name is not indexed.
get_property_node(ns, pms, tn2n, dev_name) ==
    LET device_node == CIGet(tn2n, Lower(dev_name))
    IN  IF device_node = 0 THEN Got("", NoProps, ns, pms)
        ELSE LET g == NodeGetProperties(ns, pms, device_node)
             IN  IF g.val.t = "str"
                 THEN ResolveReference(g.nodes, g.pmaps, tn2n, g.val.ref)
                 ELSE g

-----------------------------------------------------------------------------
(* The property bag *)

Keys(entries) == [i \in 1..Len(entries) |-> entries[i].k]

HasKey(entries, k) == \E i \in 1..Len(entries) : entries[i].k = k

Entry(entries, k) == entries[CHOOSE i \in 1..Len(entries) : entries[i].k = k]

\* an assignment that replaces the whole map by the one entry
MapSet_replaces_map(entries, e) == <<e>>

\* properties[k] = value: a dict keeps the position of a key it already has
MapSet(entries, e) ==
    IF HasKey(entries, e.k)
    THEN [i \in 1..Len(entries) |-> IF entries[i].k = e.k THEN e ELSE entries[i]]
    ELSE Append(entries, e)

\* The loop of put_device_property over a bag (name, count, v1..v_count)*:
\* a count of 1 stores the value itself, any other count stores the slice.
RECURSIVE PutBag(_, _, _, _)
PutBag(entries, nb_properties, attr_prop_list, id_prop) ==
    IF nb_properties = 0 THEN entries
    ELSE LET prop_name      == attr_prop_list[id_prop + 1]
             prop_nb_values == ParseInt(attr_prop_list[id_prop + 2])
             vals == SubSeq(attr_prop_list, id_prop + 3, id_prop + 2 + prop_nb_values)
         IN  PutBag(MapSet(entries, PropEntry(prop_name, prop_nb_values = 1, vals)),
                    nb_properties - 1, attr_prop_list, id_prop + 2 + prop_nb_values)

\* What get_device_property appends for one queried name
RECURSIVE EncodeKeys(_, _, _)
EncodeKeys(entries, property_name, ask_keys) ==
    IF ask_keys = <<>> THEN <<>>
    ELSE LET e == Entry(entries, Head(ask_keys))
         IN  (IF e.scalar THEN <<property_name, "1", e.vals[1]>>
              ELSE <<property_name, ToStr(Len(e.vals))>> \o e.vals)
             \o EncodeKeys(entries, property_name, Tail(ask_keys))

\* the query loop without the entry for a name that matches no key
RECURSIVE EncodeQuery_skips_absent(_, _)
EncodeQuery_skips_absent(entries, properties_query_list) ==
    IF properties_query_list = <<>> THEN [nb |-> 0, array |-> <<>>]
    ELSE LET property_name == Head(properties_query_list)
             ask_keys == list_filter(property_name, Keys(entries))
             rest == EncodeQuery_skips_absent(entries, Tail(properties_query_list))
         IN  [nb |-> rest.nb + Len(ask_keys),
              array |-> EncodeKeys(entries, property_name, ask_keys) \o rest.array]

RECURSIVE EncodeQuery(_, _)
EncodeQuery(entries, properties_query_list) ==
    IF properties_query_list = <<>> THEN [nb |-> 0, array |-> <<>>]
    ELSE LET property_name == Head(properties_query_list)
             ask_keys == list_filter(property_name, Keys(entries))
             rest == EncodeQuery(entries, Tail(properties_query_list))
         IN  IF ask_keys = <<>>
             THEN [nb |-> rest.nb + 1,
                   array |-> <<property_name, "0", "">> \o rest.array]
             ELSE [nb |-> rest.nb + Len(ask_keys),
                   array |-> EncodeKeys(entries, property_name, ask_keys) \o rest.array]

RECURSIVE AbsentAll(_)
AbsentAll(q) == IF q = <<>> THEN <<>> ELSE <<Head(q), "0", "">> \o AbsentAll(Tail(q))

\* dbapi.get_device_property: how it ends, what it returns, the heap after it
get_device_property_call(ns, pms, tn2n, dev_name, properties_query_list) ==
    LET g == get_property_node(ns, pms, tn2n, dev_name)
    IN  IF g.exc # "" THEN [exc |-> g.exc, ret |-> <<>>, nodes |-> g.nodes, pmaps |-> g.pmaps]
        ELSE IF g.val.t = "none"
        THEN [exc |-> "", nodes |-> g.nodes, pmaps |-> g.pmaps,
              ret |-> <<dev_name, ToStr(Len(properties_query_list))>>
                      \o AbsentAll(properties_query_list)]
        ELSE IF g.val.t = "str"
        THEN [exc |-> "AttributeError", ret |-> <<>>, nodes |-> g.nodes, pmaps |-> g.pmaps]
        ELSE LET enc == EncodeQuery(g.pmaps[g.val.map], properties_query_list)
             IN  [exc |-> "", nodes |-> g.nodes, pmaps |-> g.pmaps,
                  ret |-> <<dev_name, ToStr(enc.nb)>> \o enc.array]

\* dbapi.put_device_property: how it ends and the heap after it
put_device_property_call(ns, pms, tn2n, device_name, nb_properties, attr_prop_list) ==
    LET device_node == CIGet(tn2n, Lower(device_name))
    IN  IF device_node = 0 THEN [exc |-> "AttributeError", nodes |-> ns, pmaps |-> pms]
        ELSE
        LET g0  == NodeGetProperties(ns, pms, device_node)
            old == IF g0.val.t = "str"
                   THEN ResolveReference(g0.nodes, g0.pmaps, tn2n, g0.val.ref)
                   ELSE g0
        IN  IF old.exc # "" THEN [exc |-> old.exc, nodes |-> old.nodes, pmaps |-> old.pmaps]
            ELSE IF old.val.t = "str"
            THEN [exc |-> "TypeError", nodes |-> old.nodes, pmaps |-> old.pmaps]
            ELSE
            LET fresh == old.val.t = "none"
                m     == IF fresh THEN Len(old.pmaps) + 1 ELSE old.val.map
                ns1   == IF fresh
                         THEN [old.nodes EXCEPT ![device_node].properties = NodeProps(m)]
                         ELSE old.nodes
                pms1  == IF fresh THEN Append(old.pmaps, <<>>) ELSE old.pmaps
                pms2  == [pms1 EXCEPT ![m] = PutBag(pms1[m], nb_properties, attr_prop_list, 0)]
            IN  \* properties.save(): a plain dict has no save()
                [exc |-> IF old.val.t = "raw" THEN "AttributeError" ELSE "",
                 nodes |-> ns1, pmaps |-> pms2]

-----------------------------------------------------------------------------
(* Device lists *)

\* Mapping.__eq__ on two "properties" values: dict(a.items()) == dict(b.items())
PropsEq(pms, pa, pb) ==
    CASE pa.t = "none" -> pb.t = "none"
      [] pa.t = "str"  -> pb.t = "str" /\ pb.ref = pa.ref
      [] OTHER ->
           /\ pb.t \in {"raw", "node"}
           /\ LET ea == pms[pa.map]
                  eb == pms[pb.map]
              IN  /\ {ea[i].k : i \in 1..Len(ea)} = {eb[i].k : i \in 1..Len(eb)}
                  /\ \A i \in 1..Len(ea) : Entry(eb, ea[i].k) = ea[i]

\* item == device_node of list.remove: equal keys with equal values (the
\* parent is not a key of the mapping)
NodeEq(ns, pms, a, b) ==
    /\ \A key \in {"server", "personal_name", "tango_name", "class", "alias", "device"} :
          ns[a][key] = ns[b][key]
    /\ PropsEq(pms, ns[a].properties, ns[b].properties)

\* position of the item list.remove(device_node) takes out, 0 for ValueError
ListFind(ns, pms, items, device_node) ==
    LET hit(i) == items[i] = device_node \/ NodeEq(ns, pms, items[i], device_node)
    IN  IF \E i \in 1..Len(items) : hit(i)
        THEN CHOOSE i \in 1..Len(items) : hit(i) /\ \A j \in 1..(i - 1) : ~hit(j)
        ELSE 0

RemoveAt(items, i) == SubSeq(items, 1, i - 1) \o SubSeq(items, i + 1, Len(items))

\* Node.get("device", ...) leaves a NodeList (a copy) where it found a plain list
Wrapped(device) == IF device.t = "raw" THEN NodeListOf(device.items) ELSE device

\* re.match: the pattern matches a prefix of s
ReMatch(re, s) == \E i \in 0..Len(s) : ReFullMatch(re, SubSeq(s, 1, i))

\* x.get(key, "") on an item of a device list
GetOr(node, key, default) == IF node[key] = NONE THEN default ELSE node[key]

\* dbapi._get_tango_name_from_class
RECURSIVE NamesOfClass(_, _, _)
NamesOfClass(ns, items, re) ==
    IF items = <<>> THEN <<>>
    ELSE (IF ReMatch(re, GetOr(ns[Head(items)], "class", ""))
          THEN <<ns[Head(items)].tango_name>> ELSE <<>>)
         \o NamesOfClass(ns, Tail(items), re)

get_tango_name_from_class(ns, device_list, class_name) ==
    IF device_list.t = "none" THEN <<>>
    ELSE NamesOfClass(ns, device_list.items, Replace(class_name, "*", ".*"))

\* dbapi.get_device_list(server_name, class_name) for a server name other
\* than "*": what it returns
get_device_list_ret(ns, p2n, server_name, class_name) ==
    LET server_node == CIGet(p2n, server_name)
    IN  IF server_node = 0 THEN <<>>
        ELSE get_tango_name_from_class(ns, ns[server_node].device, class_name)

\* dbapi.get_device_class_list: how it ends and what it returns
RECURSIVE NameClass(_, _)
NameClass(ns, items) ==
    IF items = <<>> THEN <<>>
    ELSE <<ns[Head(items)].tango_name, ns[Head(items)].class>> \o NameClass(ns, Tail(items))

get_device_class_list_call(ns, p2n, server_name) ==
    LET server_node == CIGet(p2n, server_name)
    IN  IF server_node = 0 THEN [exc |-> "", ret |-> <<>>]
        ELSE IF ns[server_node].device.t = "none"
        THEN [exc |-> "AttributeError", ret |-> <<>>]
        ELSE [exc |-> "", ret |-> NameClass(ns, ns[server_node].device.items)]

\* dbapi.get_alias_device: how it ends and what it returns
get_alias_device_call(ns, tn2n, dev_alias) ==
    LET device_node == CIGet(tn2n, dev_alias)
    IN  IF device_node = 0 THEN [exc |-> "DB_DeviceNotDefined", ret |-> NONE]
        ELSE [exc |-> "", ret |-> ns[device_node].tango_name]

\* dbapi.get_class_for_device: how it ends and what it returns
get_class_for_device_call(ns, tn2n, dev_name) ==
    LET device_node == CIGet(tn2n, Lower(dev_name))
    IN  IF device_node = 0 \/ ns[device_node].class = NONE
        THEN [exc |-> "DB_IncorrectArguments", ret |-> NONE]
        ELSE [exc |-> "", ret |-> ns[device_node].class]

-----------------------------------------------------------------------------
(* The facade: device and server lifecycle *)

Call(op, a, b, bag, exc) == [op |-> op, a |-> a, b |-> b, bag |-> bag, exc |-> exc]

\* one more call of the facade
Counted == calls < MaxCalls /\ calls' = calls + 1

\* one more call of the facade, by a handler that runs in one piece and
\* touches neither the class index nor the runtime table
Called == calls < MaxCalls /\ calls' = calls + 1 /\ UNCHANGED runVars

\* dbapi.add_device(server_name, (tango_name, _), klass_name, alias)
add_device_call(ns, p2n, tn2n, strong, server_name, dev_name, klass_name, alias) ==
    LET tango_name == Lower(dev_name)
        same == [exc |-> "", nodes |-> ns, personal |-> p2n, tango |-> tn2n, strong |-> strong]
    IN  IF CIGet(tn2n, tango_name) # 0 THEN same
        ELSE IF Len(Split(server_name, "/")) # 2 THEN [same EXCEPT !.exc = "ValueError"]
        ELSE
        LET server_exe_name == Split(server_name, "/")[1]
            personal_name   == Lower(Split(server_name, "/")[2])
            name   == server_exe_name \o "/" \o personal_name
            known  == CIGet(p2n, name)
            create == known = 0
            sid    == IF create THEN Len(ns) + 1 ELSE known
            ns1    == IF create
                      THEN Append(ns, [EmptyNode(0) EXCEPT !.server = server_exe_name,
                                                          !.personal_name = personal_name])
                      ELSE ns
            p1     == IF create THEN CISet(p2n, name, sid) ELSE p2n
            t1     == IF create THEN CISet(tn2n, "dserver/" \o Lower(name), sid) ELSE tn2n
            did    == Len(ns1) + 1
            device_node == [EmptyNode(sid) EXCEPT !.tango_name = tango_name,
                                                  !.class = klass_name,
                                                  !.alias = alias]
            \* server_node.get("device", []) hands back the list it found (a
            \* plain list stays plain), the device is appended to it and the
            \* list is stored again
            old    == ns1[sid].device
            list   == IF old.t = "none" THEN RawList(<<did>>)
                      ELSE [old EXCEPT !.items = Append(old.items, did)]
        IN  [exc |-> "",
             nodes |-> Append([ns1 EXCEPT ![sid].device = list], device_node),
             personal |-> p1,
             tango |-> CISet(t1, tango_name, did),
             strong |-> strong \cup (IF create THEN {sid} ELSE {}) \cup {did}]

add_device(server_name, dev_name, klass_name, alias) ==
    /\ Called
    /\ LET r == add_device_call(nodes, personal_2_node, tango_name_2_node,
                                strong_node_ref, server_name, dev_name, klass_name, alias)
       IN  /\ nodes' = r.nodes
           /\ personal_2_node' = r.personal
           /\ tango_name_2_node' = r.tango
           /\ strong_node_ref' = r.strong
           /\ last' = Call("add_device", server_name, dev_name, <<klass_name, alias>>, r.exc)
    /\ UNCHANGED <<pmaps, property_attr_device, aliases>>

\* YamlDataSource.get_property_attr_device stores an empty dict under a key
\* it does not know; the Node it returns is a copy of the stored dict
PropertyAttrKey(dev_name) == Replace(Lower(dev_name), "/", ".")

TouchPropertyAttr(pad, dev_name) ==
    IF PropertyAttrKey(dev_name) \in DOMAIN pad THEN pad
    ELSE (PropertyAttrKey(dev_name) :> <<>>) @@ pad

\* dbapi.delete_device
delete_device_call(ns, pms, tn2n, pad, dev_name_arg) ==
    LET dev_name    == Lower(dev_name_arg)
        device_node == CIGet(tn2n, dev_name)
        same == [exc |-> "", nodes |-> ns, pmaps |-> pms, tango |-> tn2n, pad |-> pad]
    IN  IF device_node = 0 THEN same
        ELSE IF ns[device_node].parent = 0 THEN [same EXCEPT !.tango = CIDel(tn2n, dev_name)]
        ELSE
        LET server_node == ns[device_node].parent
            stored == ns[server_node].device
            \* the items list.remove walks: of the stored NodeList, of the
            \* plain list Node.get handed back, or of the default []
            items  == stored.items
            i      == ListFind(ns, pms, items, device_node)
            \* comparing device_node with an item that is not device_node
            \* itself goes through device_node.items(), which wraps its
            \* plain "properties" dict
            cmp    == items # <<>> /\ items[1] # device_node
            g      == IF cmp THEN NodeGetProperties(ns, pms, device_node)
                      ELSE Got("", NoProps, ns, pms)
            left   == IF stored.t = "NodeList" /\ i # 0
                      THEN NodeListOf(RemoveAt(items, i))
                      ELSE Wrapped(stored)
        IN  [exc |-> IF i = 0 THEN "ValueError" ELSE "",
             nodes |-> [g.nodes EXCEPT ![server_node].device = left],
             pmaps |-> g.pmaps,
             tango |-> CIDel(tn2n, dev_name),
             pad |-> IF i = 0 THEN pad ELSE TouchPropertyAttr(pad, dev_name)]

delete_device(dev_name) ==
    /\ Called
    /\ LET r == delete_device_call(nodes, pmaps, tango_name_2_node,
                                   property_attr_device, dev_name)
       IN  /\ nodes' = r.nodes
           /\ pmaps' = r.pmaps
           /\ tango_name_2_node' = r.tango
           /\ property_attr_device' = r.pad
           /\ last' = Call("delete_device", dev_name, "", <<>>, r.exc)
    /\ UNCHANGED <<strong_node_ref, personal_2_node, aliases>>

\* dbapi.delete_device_alias
delete_device_alias_call(ns, tn2n, dev_alias) ==
    LET device_node == CIGet(tn2n, dev_alias)
    IN  IF device_node = 0 THEN [exc |-> "KeyError", nodes |-> ns, tango |-> tn2n]
        ELSE IF ns[device_node].parent = 0
        THEN [exc |-> "", nodes |-> ns, tango |-> CIDel(tn2n, dev_alias)]
        ELSE IF ns[device_node].alias = NONE
        THEN [exc |-> "KeyError", nodes |-> ns, tango |-> CIDel(tn2n, dev_alias)]
        ELSE [exc |-> "", nodes |-> [ns EXCEPT ![device_node].alias = NONE],
              tango |-> CIDel(tn2n, dev_alias)]

delete_device_alias(dev_alias) ==
    /\ Called
    /\ LET r == delete_device_alias_call(nodes, tango_name_2_node, dev_alias)
       IN  /\ nodes' = r.nodes
           /\ tango_name_2_node' = r.tango
           /\ last' = Call("delete_device_alias", dev_alias, "", <<>>, r.exc)
    /\ UNCHANGED <<pmaps, strong_node_ref, personal_2_node, property_attr_device, aliases>>

\* dbapi.delete_server: server_node.clear() drops every key of the node
delete_server_call(ns, p2n, server_name) ==
    LET server_node == CIGet(p2n, server_name)
    IN  IF server_node = 0 THEN ns
        ELSE [ns EXCEPT ![server_node] = EmptyNode(ns[server_node].parent)]

delete_server(server_name) ==
    /\ Called
    /\ nodes' = delete_server_call(nodes, personal_2_node, server_name)
    /\ last' = Call("delete_server", server_name, "", <<>>, "")
    /\ UNCHANGED <<pmaps, strong_node_ref, personal_2_node, tango_name_2_node,
                   property_attr_device, aliases>>

\* rename_server without the test of new_name: the entry of new_name is overwritten
rename_server_unchecked(ns, tn2n, old_name, new_name) ==
    IF ~CIHas(tn2n, old_name)
    THEN [exc |-> "KeyError", nodes |-> ns, tango |-> tn2n]
    ELSE LET device_node == CIGet(tn2n, old_name)
         IN  [exc |-> "",
              nodes |-> [ns EXCEPT ![device_node].tango_name = new_name],
              tango |-> CISet(CIDel(tn2n, old_name), new_name, device_node)]

\* rename_server that reads the entry of old_name instead of popping it
rename_server_keeps_old(ns, tn2n, old_name, new_name) ==
    IF CIGet(tn2n, new_name) # 0
    THEN [exc |-> "DB_SQLError", nodes |-> ns, tango |-> tn2n]
    ELSE IF ~CIHas(tn2n, old_name)
    THEN [exc |-> "KeyError", nodes |-> ns, tango |-> tn2n]
    ELSE LET device_node == CIGet(tn2n, old_name)
         IN  [exc |-> "",
              nodes |-> [ns EXCEPT ![device_node].tango_name = new_name],
              tango |-> CISet(tn2n, new_name, device_node)]

\* dbapi.rename_server
rename_server_call(ns, tn2n, old_name, new_name) ==
    IF CIGet(tn2n, new_name) # 0
    THEN [exc |-> "DB_SQLError", nodes |-> ns, tango |-> tn2n]
    ELSE IF ~CIHas(tn2n, old_name)
    THEN [exc |-> "KeyError", nodes |-> ns, tango |-> tn2n]
    ELSE LET device_node == CIGet(tn2n, old_name)
         IN  [exc |-> "",
              nodes |-> [ns EXCEPT ![device_node].tango_name = new_name],
              tango |-> CISet(CIDel(tn2n, old_name), new_name, device_node)]

rename_server(old_name, new_name) ==
    /\ Called
    /\ LET r == rename_server_call(nodes, tango_name_2_node, old_name, new_name)
       IN  /\ nodes' = r.nodes
           /\ tango_name_2_node' = r.tango
           /\ last' = Call("rename_server", old_name, new_name, <<>>, r.exc)
    /\ UNCHANGED <<pmaps, strong_node_ref, personal_2_node, property_attr_device, aliases>>

-----------------------------------------------------------------------------
(* The facade: device properties and listings *)

put_device_property(device_name, nb_properties, attr_prop_list) ==
    /\ Called
    /\ LET r == put_device_property_call(nodes, pmaps, tango_name_2_node,
                                         device_name, nb_properties, attr_prop_list)
       IN  /\ nodes' = r.nodes
           /\ pmaps' = r.pmaps
           /\ last' = Call("put_device_property", device_name, "", attr_prop_list, r.exc)
    /\ UNCHANGED <<strong_node_ref, personal_2_node, tango_name_2_node,
                   property_attr_device, aliases>>

get_device_property(dev_name, properties_query_list) ==
    /\ Called
    /\ LET r == get_device_property_call(nodes, pmaps, tango_name_2_node,
                                         dev_name, properties_query_list)
       IN  /\ nodes' = r.nodes
           /\ pmaps' = r.pmaps
           /\ last' = Call("get_device_property", dev_name, "", properties_query_list, r.exc)
    /\ UNCHANGED <<strong_node_ref, personal_2_node, tango_name_2_node,
                   property_attr_device, aliases>>

\* dbapi.get_device_list for one server: reading the list wraps it
get_device_list(server_name, class_name) ==
    /\ Counted
    /\ LET server_node == CIGet(personal_2_node, server_name)
       IN  nodes' = IF server_node = 0 THEN nodes
                    ELSE [nodes EXCEPT ![server_node].device = Wrapped(@)]
    /\ ret' = get_device_list_ret(nodes, personal_2_node, server_name, class_name)
    /\ last' = Call("get_device_list", server_name, class_name, <<>>, "")
    /\ UNCHANGED <<pmaps, strong_node_ref, personal_2_node, tango_name_2_node,
                   property_attr_device, aliases, class_name_2_node, devices_info, req>>

-----------------------------------------------------------------------------
(* The facade: attribute aliases *)

\* put_attribute_alias without the test of the alias: the binding is replaced
put_attribute_alias_overwrite(al, attribute_name, attr_alias_name) ==
    [exc |-> "", aliases |-> (attr_alias_name :> attribute_name) @@ al]

\* dbapi.put_attribute_alias
put_attribute_alias_call(al, attribute_name, attr_alias_name) ==
    IF attr_alias_name \in DOMAIN al
    THEN [exc |-> "DB_SQLError", aliases |-> al]
    ELSE [exc |-> "", aliases |-> (attr_alias_name :> attribute_name) @@ al]

put_attribute_alias(attribute_name, attr_alias_name) ==
    /\ Called
    /\ LET r == put_attribute_alias_call(aliases, attribute_name, attr_alias_name)
       IN  /\ aliases' = r.aliases
           /\ last' = Call("put_attribute_alias", attribute_name, attr_alias_name, <<>>, r.exc)
    /\ UNCHANGED treeVars

\* dbapi.delete_attribute_alias
delete_attribute_alias(alias) ==
    /\ Called
    /\ IF alias \in DOMAIN aliases
       THEN /\ aliases' = [k \in DOMAIN aliases \ {alias} |-> aliases[k]]
            /\ last' = Call("delete_attribute_alias", alias, "", <<>>, "")
       ELSE /\ aliases' = aliases
            /\ last' = Call("delete_attribute_alias", alias, "", <<>>, "KeyError")
    /\ UNCHANGED treeVars

\* dbapi.get_alias_attribute: what it returns
get_alias_attribute_ret(al, alias_name) ==
    IF alias_name \in DOMAIN al /\ al[alias_name] # "" THEN <<al[alias_name]>> ELSE <<>>

-----------------------------------------------------------------------------
(* The calls the model makes *)

AddServerNames   == {"Srv/1"}
AddDeviceNames   == {"X/Y/Z"}
ClassNames       == {"MyClass"}
AddAliases       == {NONE, "abc"}
DeleteArgs       == {"a/b/c", "A/b/f", "x/y/z", "dserver/srv/1", "sys/database/2"}
AliasArgs        == {"t", "x/y/z"}
RenameArgs       == {"a/b/c", "t", "a/b/e", "x/y/z"}
RenameTargets    == {"N/e/w", "a/b/d"}
ServerArgs       == {"Srv/1", "DataBaseds/2"}
PropertyArgs     == {"a/b/c", "a/b/d", "A/b/f", "x/y/z"}
PropertyBags     == { <<"p1", "1", "v1">> }
RoundTripBags    == { <<"p1", "1", "v1">>, <<"p1", "2", "v1", "v2">>, <<"P1", "1", "w">> }
PropertyQueries  == { <<"p1">> }
QueryNames       == {"p1", "P1", "q"}
AttributeNames   == {"attr/x", "attr/y"}
AttributeAliases == {"aliasX", "aliasY"}

Next ==
    \/ \E s \in AddServerNames, n \in AddDeviceNames, c \in ClassNames, a \in AddAliases :
          add_device(s, n, c, a)
    \/ \E d \in DeleteArgs : delete_device(d)
    \/ \E d \in AliasArgs : delete_device_alias(d)
    \/ \E s \in AddServerNames : delete_server(s)
    \/ \E o \in RenameArgs, n \in RenameTargets : rename_server(o, n)
    \/ \E d \in PropertyArgs, bag \in PropertyBags : put_device_property(d, 1, bag)
    \/ \E d \in PropertyArgs, q \in PropertyQueries : get_device_property(d, q)
    \/ \E s \in ServerArgs : get_device_list(s, "*")

Spec == Init /\ [][Next]_vars

NextAlias ==
    \/ \E x \in AttributeNames, a \in AttributeAliases : put_attribute_alias(x, a)
    \/ \E a \in AttributeAliases : delete_attribute_alias(a)

SpecAlias == Init /\ [][NextAlias]_vars

\* Property calls on loaded and added devices, with scalar and list values
NextProp ==
    \/ \E s \in AddServerNames, n \in AddDeviceNames, c \in ClassNames :
          add_device(s, n, c, NONE)
    \/ \E d \in PropertyArgs, bag \in RoundTripBags : put_device_property(d, 1, bag)
    \/ \E d \in PropertyArgs, q \in PropertyQueries : get_device_property(d, q)

SpecProp == Init /\ [][NextProp]_vars

-----------------------------------------------------------------------------
(* The facade: runtime export and import *)

\* the runtime table is a dict in insertion order: entries [k, info]
InfoKeys(di) == [i \in 1..Len(di) |-> di[i].k]

InfoHas(di, key) == \E i \in 1..Len(di) : di[i].k = key

InfoAt(di, key) == CHOOSE i \in 1..Len(di) : di[i].k = key

\* Node(): a record without keys
EmptyInfo == [x \in {} |-> ""]

\* datetime.datetime.now() as a string
Now == "<now>"

\* YamlDataSource.get_exported_device_info: an unknown name gets an empty
\* Node stored under it
get_exported_device_info(di, dev_name) ==
    IF InfoHas(di, dev_name) THEN di
    ELSE Append(di, [k |-> dev_name, info |-> EmptyInfo])

\* dbapi.export_device
export_device_call(tn2n, di, dev_name_arg, IOR, host, pid, version) ==
    LET dev_name == Lower(dev_name_arg)
    IN  IF CIGet(tn2n, dev_name) = 0
        THEN [exc |-> "DB_DeviceNotDefined", info |-> di]
        ELSE LET di1 == get_exported_device_info(di, dev_name)
                 i   == InfoAt(di1, dev_name)
             IN  IF ParseInt(pid) = -1
                 THEN [exc |-> "ValueError", info |-> di1]
                 ELSE [exc |-> "",
                       info |-> [di1 EXCEPT ![i].info =
                                    [IOR |-> IOR, host |-> host, pid |-> ParseInt(pid),
                                     version |-> version, start_time |-> Now] @@ @]]

export_device(dev_name, IOR, host, pid, version) ==
    /\ Counted
    /\ LET r == export_device_call(tango_name_2_node, devices_info,
                                   dev_name, IOR, host, pid, version)
       IN  /\ devices_info' = r.info
           /\ last' = Call("export_device", dev_name, IOR, <<host, pid, version>>, r.exc)
    /\ UNCHANGED <<treeVars, aliases, class_name_2_node, req, ret>>

\* len(node) = 0: a Node without keys is false in a condition
NodeIsEmpty(node) == node = EmptyNode(node.parent)

InfoOr(info, key, default) == IF key \in DOMAIN info THEN info[key] ELSE default

\* get_device_info that reports only devices that were exported
get_device_info_exported_only(ns, tn2n, di, dev_name_arg) ==
    LET dev_name == Lower(dev_name_arg)
    IN  [exc |-> "", ret |-> << <<>>, <<>> >>,
         info |-> get_exported_device_info(di, dev_name)]

\* dbapi.get_device_info: (result_long, result_str)
get_device_info_call(ns, tn2n, di, dev_name_arg) ==
    LET dev_name    == Lower(dev_name_arg)
        di1         == get_exported_device_info(di, dev_name)
        info        == di1[InfoAt(di1, dev_name)].info
        device_node == CIGet(tn2n, dev_name)
    IN  IF device_node = 0 \/ NodeIsEmpty(ns[device_node])
        THEN [exc |-> "", ret |-> << <<>>, <<>> >>, info |-> di1]
        ELSE LET server_node == IF StartsWith(dev_name, "dserver") THEN device_node
                                ELSE ns[device_node].parent
             IN  IF server_node = 0
                 THEN [exc |-> "AttributeError", ret |-> <<>>, info |-> di1]
                 ELSE LET tango_name == GetOr(ns[server_node], "server", "") \o "/"
                                        \o GetOr(ns[server_node], "personal_name", "")
                      IN  [exc |-> "",
                           ret |-> << << IF info = EmptyInfo THEN 0 ELSE 1,
                                         InfoOr(info, "pid", -1) >>,
                                      << dev_name,
                                         InfoOr(info, "IOR", ""),
                                         InfoOr(info, "version", "0"),
                                         tango_name,
                                         InfoOr(info, "host", "?"),
                                         InfoOr(info, "start_time", "?"),
                                         "?",
                                         GetOr(ns[device_node], "class", "DServer") >> >>,
                           info |-> di1]

get_device_info(dev_name) ==
    /\ Counted
    /\ LET r == get_device_info_call(nodes, tango_name_2_node, devices_info, dev_name)
       IN  /\ devices_info' = r.info
           /\ ret' = r.ret
           /\ last' = Call("get_device_info", dev_name, "", <<>>, r.exc)
    /\ UNCHANGED <<treeVars, aliases, class_name_2_node, req>>

\* dbapi.import_device
import_device_call(ns, tn2n, di, dev_name) ==
    IF CIGet(tn2n, dev_name) # 0
    THEN get_device_info_call(ns, tn2n, di, dev_name)
    ELSE [exc |-> "DB_DeviceNotDefined", ret |-> <<>>, info |-> di]

import_device(dev_name) ==
    /\ Counted
    /\ LET r == import_device_call(nodes, tango_name_2_node, devices_info, dev_name)
       IN  /\ devices_info' = r.info
           /\ ret' = r.ret
           /\ last' = Call("import_device", dev_name, "", <<>>, r.exc)
    /\ UNCHANGED <<treeVars, aliases, class_name_2_node, req>>

\* dbapi.get_device_exported_list: the keys of the runtime table that match
get_device_exported_list_ret(di, wildcard) == list_filter(wildcard, InfoKeys(di))

get_device_exported_list(wildcard) ==
    /\ Counted
    /\ ret' = get_device_exported_list_ret(devices_info, wildcard)
    /\ last' = Call("get_device_exported_list", wildcard, "", <<>>, "")
    /\ UNCHANGED <<treeVars, aliases, class_name_2_node, devices_info, req>>

ExportArgs   == {"sys/database/2", "dserver/DataBaseds/2", "a/b/c", "No/Such/Dev"}
ExportIORs   == {"IOR:1"}
ExportHosts  == {"host1"}
ExportPids   == {"3"}
ExportVersions == {"5"}
ExportedDeleteArgs == {"a/b/c", "sys/database/2"}

NextExport ==
    \/ \E d \in ExportArgs, i \in ExportIORs, h \in ExportHosts, p \in ExportPids,
          v \in ExportVersions : export_device(d, i, h, p, v)
    \/ \E d \in ExportArgs : get_device_info(d)
    \/ \E d \in ExportArgs : import_device(d)
    \/ get_device_exported_list("*")
    \/ \E d \in ExportedDeleteArgs : delete_device(d)

SpecExport == Init /\ [][NextExport]_vars

-----------------------------------------------------------------------------
(* Handlers that run statement by statement next to other handlers *)

\* no handler is between two of its statements
Idle == req.pc \in {"idle", "done"}

Running(op, pc) == req.op = op /\ req.pc = pc

stepVars == <<pmaps, property_attr_device, aliases, class_name_2_node,
              devices_info, ret, calls>>

\* rename_server, first statement: the lookup of new_name and the raise
rename_server_enter(old_name, new_name) ==
    /\ Idle
    /\ Counted
    /\ IF CIGet(tango_name_2_node, new_name) # 0
       THEN /\ req' = [NoRequest EXCEPT !.op = "rename_server", !.pc = "done",
                                        !.args = <<old_name, new_name>>]
            /\ last' = Call("rename_server", old_name, new_name, <<>>, "DB_SQLError")
       ELSE /\ req' = [NoRequest EXCEPT !.op = "rename_server", !.pc = "pop",
                                        !.args = <<old_name, new_name>>]
            /\ last' = last
    /\ UNCHANGED <<treeVars, aliases, class_name_2_node, devices_info, ret>>

\* tango_name_2_node.pop(old_name) that leaves the entry in the index
rename_server_pop_keeps(tn2n, old_name) ==
    IF ~CIHas(tn2n, old_name) THEN [exc |-> "KeyError", tango |-> tn2n, node |-> 0]
    ELSE [exc |-> "", tango |-> tn2n, node |-> CIGet(tn2n, old_name)]

\* device_node = tango_name_2_node.pop(old_name)
rename_server_pop_call(tn2n, old_name) ==
    IF ~CIHas(tn2n, old_name) THEN [exc |-> "KeyError", tango |-> tn2n, node |-> 0]
    ELSE [exc |-> "", tango |-> CIDel(tn2n, old_name), node |-> CIGet(tn2n, old_name)]

rename_server_pop ==
    /\ Running("rename_server", "pop")
    /\ LET r == rename_server_pop_call(tango_name_2_node, req.args[1])
       IN  /\ tango_name_2_node' = r.tango
           /\ IF r.exc # ""
              THEN /\ req' = [req EXCEPT !.pc = "done"]
                   /\ last' = Call("rename_server", req.args[1], req.args[2], <<>>, r.exc)
              ELSE /\ req' = [req EXCEPT !.pc = "name", !.node = r.node]
                   /\ last' = last
    /\ UNCHANGED <<nodes, strong_node_ref, personal_2_node, stepVars>>

\* device_node["tango_name"] = new_name
rename_server_name ==
    /\ Running("rename_server", "name")
    /\ nodes' = [nodes EXCEPT ![req.node].tango_name = req.args[2]]
    /\ req' = [req EXCEPT !.pc = "insert"]
    /\ UNCHANGED <<strong_node_ref, personal_2_node, tango_name_2_node, last, stepVars>>

\* tango_name_2_node[new_name] = device_node, and the return
rename_server_insert ==
    /\ Running("rename_server", "insert")
    /\ tango_name_2_node' = CISet(tango_name_2_node, req.args[2], req.node)
    /\ req' = [req EXCEPT !.pc = "done"]
    /\ last' = Call("rename_server", req.args[1], req.args[2], <<>>, "")
    /\ UNCHANGED <<nodes, strong_node_ref, personal_2_node, stepVars>>

\* a reader: get_class_for_device looks the name up in the entity index
get_class_for_device(dev_name) ==
    /\ Counted
    /\ LET r == get_class_for_device_call(nodes, tango_name_2_node, dev_name)
       IN  /\ ret' = <<r.ret>>
           /\ last' = Call("get_class_for_device", dev_name, "", <<>>, r.exc)
    /\ UNCHANGED <<treeVars, aliases, class_name_2_node, devices_info, req>>


\* add_device up to the lookup of the server: the name is already indexed
\* (return), or the server is known, or a server node is made and filled
\* (it is in no index yet)
add_device_enter(server_name, dev_name, klass_name, alias) ==
    /\ Idle
    /\ Counted
    /\ LET tango_name == Lower(dev_name)
           parts == Split(server_name, "/")
           call  == [NoRequest EXCEPT !.op = "add_device",
                                      !.args = <<server_name, tango_name, klass_name, alias>>]
       IN  IF CIGet(tango_name_2_node, tango_name) # 0
           THEN /\ req' = [call EXCEPT !.pc = "done"]
                /\ last' = Call("add_device", server_name, dev_name, <<klass_name, alias>>, "")
                /\ nodes' = nodes
           ELSE IF Len(parts) # 2
           THEN /\ req' = [call EXCEPT !.pc = "done"]
                /\ last' = Call("add_device", server_name, dev_name,
                                <<klass_name, alias>>, "ValueError")
                /\ nodes' = nodes
           ELSE LET name  == parts[1] \o "/" \o Lower(parts[2])
                    known == CIGet(personal_2_node, name)
                IN  /\ last' = last
                    /\ IF known # 0
                       THEN /\ req' = [call EXCEPT !.pc = "create_device",
                                                   !.args[1] = name, !.server = known]
                            /\ nodes' = nodes
                       ELSE /\ req' = [call EXCEPT !.pc = "index_server",
                                                   !.args[1] = name,
                                                   !.server = Len(nodes) + 1]
                            /\ nodes' = Append(nodes,
                                   [EmptyNode(0) EXCEPT !.server = parts[1],
                                                        !.personal_name = Lower(parts[2])])
    /\ UNCHANGED <<strong_node_ref, personal_2_node, tango_name_2_node, pmaps,
                   property_attr_device, aliases, class_name_2_node, devices_info, ret>>

\* personal_2_node[server_name] = server_node
add_device_index_server ==
    /\ Running("add_device", "index_server")
    /\ personal_2_node' = CISet(personal_2_node, req.args[1], req.server)
    /\ req' = [req EXCEPT !.pc = "index_dserver"]
    /\ UNCHANGED <<nodes, strong_node_ref, tango_name_2_node, last, stepVars>>

\* tango_name_2_node["dserver/..."] = server_node; strong_node_ref.add
add_device_index_dserver ==
    /\ Running("add_device", "index_dserver")
    /\ tango_name_2_node' = CISet(tango_name_2_node, "dserver/" \o Lower(req.args[1]),
                                  req.server)
    /\ strong_node_ref' = strong_node_ref \cup {req.server}
    /\ req' = [req EXCEPT !.pc = "create_device"]
    /\ UNCHANGED <<nodes, personal_2_node, last, stepVars>>

\* device_node = create_empty(server_node), retained and filled
add_device_create_device ==
    /\ Running("add_device", "create_device")
    /\ nodes' = Append(nodes, [EmptyNode(req.server) EXCEPT !.tango_name = req.args[2],
                                                            !.class = req.args[3],
                                                            !.alias = req.args[4]])
    /\ strong_node_ref' = strong_node_ref \cup {Len(nodes) + 1}
    /\ req' = [req EXCEPT !.pc = "append", !.node = Len(nodes) + 1]
    /\ UNCHANGED <<personal_2_node, tango_name_2_node, last, stepVars>>

\* device_node_list = server_node.get("device", []); the append.  A NodeList
\* is handed back itself and grows in place; a plain list is handed back
\* while the server keeps a NodeList copy of it.
add_device_append ==
    /\ Running("add_device", "append")
    /\ LET old == nodes[req.server].device
       IN  CASE old.t = "NodeList" ->
                  /\ nodes' = [nodes EXCEPT ![req.server].device.items = Append(@, req.node)]
                  /\ req' = [req EXCEPT !.pc = "store",
                                        !.list = NodeListOf(Append(old.items, req.node))]
             [] old.t = "raw" ->
                  /\ nodes' = [nodes EXCEPT ![req.server].device = Wrapped(@)]
                  /\ req' = [req EXCEPT !.pc = "store",
                                        !.list = RawList(Append(old.items, req.node))]
             [] OTHER ->
                  /\ nodes' = nodes
                  /\ req' = [req EXCEPT !.pc = "store", !.list = RawList(<<req.node>>)]
    /\ UNCHANGED <<strong_node_ref, personal_2_node, tango_name_2_node, last, stepVars>>

\* server_node["device"] = device_node_list
add_device_store ==
    /\ Running("add_device", "store")
    /\ nodes' = [nodes EXCEPT ![req.server].device = req.list]
    /\ req' = [req EXCEPT !.pc = "index_device"]
    /\ UNCHANGED <<strong_node_ref, personal_2_node, tango_name_2_node, last, stepVars>>

\* tango_name_2_node[tango_name] = device_node, and the return
add_device_index_device ==
    /\ Running("add_device", "index_device")
    /\ tango_name_2_node' = CISet(tango_name_2_node, req.args[2], req.node)
    /\ req' = [req EXCEPT !.pc = "done"]
    /\ last' = Call("add_device", req.args[1], req.args[2], <<req.args[3], req.args[4]>>, "")
    /\ UNCHANGED <<nodes, strong_node_ref, personal_2_node, stepVars>>

StepRenameArgs == {"a/b/c", "x/y/z"}
StepLookups    == {"a/b/c", "N/e/w", "x/y/z"}
StepServers    == {"Srv/1", "DataBaseds/2"}

\* one writer at a time, statement by statement, between the readers' calls
NextSteps ==
    \/ \E o \in StepRenameArgs, n \in RenameTargets : rename_server_enter(o, n)
    \/ rename_server_pop
    \/ rename_server_name
    \/ rename_server_insert
    \/ \E s \in StepServers, n \in AddDeviceNames, c \in ClassNames :
          add_device_enter(s, n, c, NONE)
    \/ add_device_index_server
    \/ add_device_index_dserver
    \/ add_device_create_device
    \/ add_device_append
    \/ add_device_store
    \/ add_device_index_device
    \/ \E d \in StepLookups : get_class_for_device(d)
    \/ \E s \in StepServers : get_device_list(s, "*")

SpecSteps == Init /\ [][NextSteps]_vars

-----------------------------------------------------------------------------
(* The wildcard matcher on its own *)

\* list_filter(pattern, l) called by a listing
apply_list_filter(pattern, l) ==
    /\ Counted
    /\ ret' = list_filter(pattern, l)
    /\ last' = Call("list_filter", pattern, "", l, "")
    /\ UNCHANGED <<treeVars, aliases, class_name_2_node, devices_info, req>>

FilterPatterns == {"sys/*", "data*", "*", "A/B", "a.c", "a*c", "*b*", "S*/*/2"}

FilterCandidates ==
    { <<"sys/database/2", NONE, "SYS/x", "data">>,
      <<"abc", "a.c", "A.C", "ac">>,
      <<"a/b", NONE, "a/b/c", "AC", "b">>,
      <<>> }

NextFilter == \E p \in FilterPatterns, l \in FilterCandidates : apply_list_filter(p, l)

SpecFilter == Init /\ [][NextFilter]_vars

-----------------------------------------------------------------------------
(* The facade: listings that record how they end *)

\* dbapi.get_device_class_list; reading the list wraps it
get_device_class_list(server_name) ==
    /\ Counted
    /\ LET server_node == CIGet(personal_2_node, server_name)
           r == get_device_class_list_call(nodes, personal_2_node, server_name)
       IN  /\ nodes' = IF server_node = 0 THEN nodes
                       ELSE [nodes EXCEPT ![server_node].device = Wrapped(@)]
           /\ ret' = r.ret
           /\ last' = Call("get_device_class_list", server_name, "", <<>>, r.exc)
    /\ UNCHANGED <<pmaps, strong_node_ref, personal_2_node, tango_name_2_node,
                   property_attr_device, aliases, class_name_2_node, devices_info, req>>

\* dbapi.get_device_server_class_list: how it ends and what it returns
get_device_server_class_list_call(ns, p2n, server_name) ==
    LET server_node == CIGet(p2n, Lower(server_name))
    IN  IF server_node = 0 THEN [exc |-> "", ret |-> <<>>]
        ELSE IF ns[server_node].device.t = "none"
        THEN [exc |-> "AttributeError", ret |-> <<>>]
        ELSE [exc |-> "",
              ret |-> [i \in 1..Len(ns[server_node].device.items) |->
                          ns[ns[server_node].device.items[i]].class]]

get_device_server_class_list(server_name) ==
    /\ Counted
    /\ LET server_node == CIGet(personal_2_node, Lower(server_name))
           r == get_device_server_class_list_call(nodes, personal_2_node, server_name)
       IN  /\ nodes' = IF server_node = 0 THEN nodes
                       ELSE [nodes EXCEPT ![server_node].device = Wrapped(@)]
           /\ ret' = r.ret
           /\ last' = Call("get_device_server_class_list", server_name, "", <<>>, r.exc)
    /\ UNCHANGED <<pmaps, strong_node_ref, personal_2_node, tango_name_2_node,
                   property_attr_device, aliases, class_name_2_node, devices_info, req>>

\* list(index.keys()); the index of the model keeps no insertion order, the
\* list has the keys in one fixed order
RECURSIVE KeyList(_)
KeyList(keys) ==
    IF keys = {} THEN <<>>
    ELSE LET k == CHOOSE x \in keys : TRUE
         IN  <<k>> \o KeyList(keys \ {k})

\* dbapi.get_server_list
get_server_list(wildcard) ==
    /\ Counted
    /\ ret' = list_filter(wildcard, KeyList(DOMAIN personal_2_node))
    /\ last' = Call("get_server_list", wildcard, "", <<>>, "")
    /\ UNCHANGED <<treeVars, aliases, class_name_2_node, devices_info, req>>

ListServers   == {"Srv/1", "DataBaseds/2", "No/1"}
ListWildcards == {"*", "srv*"}

NextList ==
    \/ \E s \in AddServerNames, n \in AddDeviceNames, c \in ClassNames :
          add_device(s, n, c, NONE)
    \/ \E d \in ExportedDeleteArgs : delete_device(d)
    \/ \E s \in ServerArgs : delete_server(s)
    \/ \E s \in ListServers : get_device_list(s, "*")
    \/ \E s \in ListServers : get_device_class_list(s)
    \/ \E s \in ListServers : get_device_server_class_list(s)
    \/ \E w \in ListWildcards : get_server_list(w)
    \/ \E w \in ListWildcards : get_device_exported_list(w)

SpecList == Init /\ [][NextList]_vars

-----------------------------------------------------------------------------
(* The facade: class properties *)

\* DataSource.get_class_property: the value stored under prop_name in the
\* "properties" of the class document, absent when the class, the map or
\* the key is missing.  The key is looked up as it is given.
source_get_class_property(cn2n, klass_name, prop_name) ==
    LET properties == IF CIHas(cn2n, klass_name) /\ "properties" \in DOMAIN CIGet(cn2n, klass_name)
                      THEN CIGet(cn2n, klass_name).properties ELSE <<>>
    IN  IF HasKey(properties, prop_name)
        THEN [found |-> TRUE, entry |-> Entry(properties, prop_name)]
        ELSE [found |-> FALSE, entry |-> PropEntry(prop_name, TRUE, <<>>)]

\* dbapi.get_class_property: the loop over the names asked for
RECURSIVE ClassPropertyArray(_, _, _)
ClassPropertyArray(cn2n, class_name, properties) ==
    IF properties = <<>> THEN <<>>
    ELSE LET prop_name == Head(properties)
             values == source_get_class_property(cn2n, class_name, prop_name)
         IN  (IF ~values.found THEN <<prop_name, "0">>
              ELSE IF ~values.entry.scalar
              THEN <<prop_name, ToStr(Len(values.entry.vals))>> \o values.entry.vals
              ELSE <<prop_name, "1", values.entry.vals[1]>>)
             \o ClassPropertyArray(cn2n, class_name, Tail(properties))

get_class_property_ret(cn2n, class_name, properties) ==
    <<class_name, ToStr(Len(properties))>> \o ClassPropertyArray(cn2n, class_name, properties)

get_class_property(class_name, properties) ==
    /\ Counted
    /\ ret' = get_class_property_ret(class_name_2_node, class_name, properties)
    /\ last' = Call("get_class_property", class_name, "", properties, "")
    /\ UNCHANGED <<treeVars, aliases, class_name_2_node, devices_info, req>>

AbsentPutArgs  == {"a/b/c", "A/b/f"}
AbsentGetArgs  == {"a/b/c", "a/b/d", "x/y/z"}
AbsentQueries  == { <<"q", "zz">>, <<"Q">>, <<"zz", "p1">> }
ClassArgs      == {"c", "Zed"}
ClassQueries   == { <<"cl", "nope">>, <<"CP", "cp">> }

NextAbsent ==
    \/ \E d \in AbsentPutArgs, bag \in PropertyBags : put_device_property(d, 1, bag)
    \/ \E d \in AbsentGetArgs, q \in AbsentQueries : get_device_property(d, q)
    \/ \E c \in ClassArgs, q \in ClassQueries : get_class_property(c, q)

SpecAbsent == Init /\ [][NextAbsent]_vars

-----------------------------------------------------------------------------
(* The facade: removing properties *)

\* del properties[k] on the entries of a dict
MapDel(entries, k) == SelectSeq(entries, LAMBDA e : e.k # k)

\* dbapi.delete_device_property: how it ends and the heap after it.  A
\* KeyError of the del is swallowed; a plain dict has no save().
delete_device_property_call(ns, pms, tn2n, dev_name, prop_name) ==
    LET g == get_property_node(ns, pms, tn2n, dev_name)
    IN  IF g.exc # "" THEN [exc |-> g.exc, nodes |-> g.nodes, pmaps |-> g.pmaps]
        ELSE IF g.val.t = "none"
        THEN [exc |-> "", nodes |-> g.nodes, pmaps |-> g.pmaps]
        ELSE IF g.val.t = "str"
        THEN [exc |-> "TypeError", nodes |-> g.nodes, pmaps |-> g.pmaps]
        ELSE IF ~HasKey(g.pmaps[g.val.map], prop_name)
        THEN [exc |-> "", nodes |-> g.nodes, pmaps |-> g.pmaps]
        ELSE [exc |-> IF g.val.t = "raw" THEN "AttributeError" ELSE "",
              nodes |-> g.nodes,
              pmaps |-> [g.pmaps EXCEPT ![g.val.map] = MapDel(@, prop_name)]]

delete_device_property(dev_name, prop_name) ==
    /\ Called
    /\ LET r == delete_device_property_call(nodes, pmaps, tango_name_2_node,
                                            dev_name, prop_name)
       IN  /\ nodes' = r.nodes
           /\ pmaps' = r.pmaps
           /\ last' = Call("delete_device_property", dev_name, prop_name, <<>>, r.exc)
    /\ UNCHANGED <<strong_node_ref, personal_2_node, tango_name_2_node,
                   property_attr_device, aliases>>

\* dbapi.put_class_property: DataSource.get_class_name creates, retains and
\* indexes the class node it does not find; the bag is stored as
\* put_device_property stores it.
put_class_property_call(ns, strong, cn2n, class_name, nb_properties, attr_prop_list) ==
    LET found      == CIHas(cn2n, class_name)
        nid        == Len(ns) + 1
        class_node == IF found THEN CIGet(cn2n, class_name)
                      ELSE [class |-> class_name, node |-> nid]
        properties == IF "properties" \in DOMAIN class_node
                      THEN class_node.properties ELSE <<>>
        stored     == PutBag(properties, nb_properties, attr_prop_list, 0)
        fields     == DOMAIN class_node \cup {"properties"}
    IN  [nodes  |-> IF found THEN ns
                    ELSE Append(ns, [EmptyNode(0) EXCEPT !.class = class_name]),
         strong |-> IF found THEN strong ELSE strong \cup {nid},
         index  |-> CISet(cn2n, class_name,
                          [f \in fields |-> IF f = "properties" THEN stored
                                            ELSE class_node[f]])]

put_class_property(class_name, nb_properties, attr_prop_list) ==
    /\ Counted
    /\ LET r == put_class_property_call(nodes, strong_node_ref, class_name_2_node,
                                        class_name, nb_properties, attr_prop_list)
       IN  /\ nodes' = r.nodes
           /\ strong_node_ref' = r.strong
           /\ class_name_2_node' = r.index
    /\ last' = Call("put_class_property", class_name, "", attr_prop_list, "")
    /\ UNCHANGED <<pmaps, personal_2_node, tango_name_2_node, property_attr_device,
                   aliases, devices_info, req, ret>>

\* dbapi.delete_class_property: its body is `pass`
delete_class_property(klass_name, prop_name) ==
    /\ Called
    /\ last' = Call("delete_class_property", klass_name, prop_name, <<>>, "")
    /\ UNCHANGED <<treeVars, aliases>>

\* dbapi.delete_property: it logs a warning
delete_property(obj_name, prop_name) ==
    /\ Called
    /\ last' = Call("delete_property", obj_name, prop_name, <<>>, "")
    /\ UNCHANGED <<treeVars, aliases>>

\* dbapi.get_class_property_list: the keys of the class's properties
get_class_property_list_ret(cn2n, class_name) ==
    IF CIHas(cn2n, class_name) /\ "properties" \in DOMAIN CIGet(cn2n, class_name)
    THEN Keys(CIGet(cn2n, class_name).properties)
    ELSE <<>>

get_class_property_list(class_name) ==
    /\ Counted
    /\ ret' = get_class_property_list_ret(class_name_2_node, class_name)
    /\ last' = Call("get_class_property_list", class_name, "", <<>>, "")
    /\ UNCHANGED <<treeVars, aliases, class_name_2_node, devices_info, req>>

RemoveDevices    == {"a/b/c", "a/b/d", "A/B/F"}
RemoveProperties == {"q", "zz"}
RemoveClasses    == {"C", "N"}
RemoveClassBags  == { <<"p", "1", "v">> }

NextRemove ==
    \/ \E d \in {"a/b/c"}, bag \in PropertyBags : put_device_property(d, 1, bag)
    \/ \E d \in RemoveDevices, p \in RemoveProperties : delete_device_property(d, p)
    \/ \E d \in {"a/b/c"}, q \in { <<"q", "zz">> } : get_device_property(d, q)
    \/ \E c \in RemoveClasses, bag \in RemoveClassBags : put_class_property(c, 1, bag)
    \/ \E c \in RemoveClasses : delete_class_property(c, "p")
    \/ \E c \in RemoveClasses : get_class_property(c, <<"p">>)
    \/ \E c \in RemoveClasses : get_class_property_list(c)
    \/ delete_property("a/b/c", "q")

SpecRemove == Init /\ [][NextRemove]_vars

-----------------------------------------------------------------------------
(* The facade: device aliases *)

\* dbapi.put_device_alias: the alias is written into the device node; the
\* entity index is not read for the alias and not written
put_device_alias_call(ns, tn2n, device_name, device_alias) ==
    LET device_node == CIGet(tn2n, device_name)
    IN  IF device_node = 0 THEN [exc |-> "TypeError", nodes |-> ns]
        ELSE [exc |-> "", nodes |-> [ns EXCEPT ![device_node].alias = device_alias]]

put_device_alias(device_name, device_alias) ==
    /\ Called
    /\ LET r == put_device_alias_call(nodes, tango_name_2_node, device_name, device_alias)
       IN  /\ nodes' = r.nodes
           /\ last' = Call("put_device_alias", device_name, device_alias, <<>>, r.exc)
    /\ UNCHANGED <<pmaps, strong_node_ref, personal_2_node, tango_name_2_node,
                   property_attr_device, aliases>>

\* dbapi.get_device_alias: how it ends and what it returns
get_device_alias_call(ns, tn2n, dev_name) ==
    LET device_node == CIGet(tn2n, Lower(dev_name))
    IN  IF device_node = 0 \/ ns[device_node].alias = NONE
        THEN [exc |-> "DB_DeviceNotDefined", ret |-> NONE]
        ELSE [exc |-> "", ret |-> ns[device_node].alias]

get_device_alias(dev_name) ==
    /\ Counted
    /\ LET r == get_device_alias_call(nodes, tango_name_2_node, dev_name)
       IN  /\ ret' = r.ret
           /\ last' = Call("get_device_alias", dev_name, "", <<>>, r.exc)
    /\ UNCHANGED <<treeVars, aliases, class_name_2_node, devices_info, req>>

get_alias_device(dev_alias) ==
    /\ Counted
    /\ LET r == get_alias_device_call(nodes, tango_name_2_node, dev_alias)
       IN  /\ ret' = r.ret
           /\ last' = Call("get_alias_device", dev_alias, "", <<>>, r.exc)
    /\ UNCHANGED <<treeVars, aliases, class_name_2_node, devices_info, req>>

AliasDevices     == {"a/b/c", "a/b/d", "A/B/F", "x/y/z"}
DeviceAliases    == {"t", "new"}
AliasLookups     == {"a/b/c", "a/b/d"}

NextDevAlias ==
    \/ \E d \in AliasDevices, a \in DeviceAliases : put_device_alias(d, a)
    \/ \E a \in DeviceAliases : delete_device_alias(a)
    \/ \E d \in AliasLookups : get_device_alias(d)
    \/ \E a \in DeviceAliases : get_alias_device(a)
    \/ add_device("Srv/1", "x/y/z", "MyClass", "new")

SpecDevAlias == Init /\ [][NextDevAlias]_vars

-----------------------------------------------------------------------------
(* The facade: attribute alias lookup *)

\* dbapi.get_attribute_alias on the mapping of the YAML source, a dict from
\* alias to attribute name.  For an unbound alias the message of the error
\* is built by adding the mapping to a string; for a bound one the handler
\* calls .get("name") on the attribute name, a string.
get_attribute_alias_call(al, attr_alias_name) ==
    IF attr_alias_name \notin DOMAIN al
    THEN [exc |-> "TypeError", ret |-> <<>>]
    ELSE [exc |-> "AttributeError", ret |-> <<>>]

get_attribute_alias(attr_alias_name) ==
    /\ Counted
    /\ LET r == get_attribute_alias_call(aliases, attr_alias_name)
       IN  /\ ret' = r.ret
           /\ last' = Call("get_attribute_alias", attr_alias_name, "", <<>>, r.exc)
    /\ UNCHANGED <<treeVars, aliases, class_name_2_node, devices_info, req>>

get_alias_attribute(alias_name) ==
    /\ Counted
    /\ ret' = get_alias_attribute_ret(aliases, alias_name)
    /\ last' = Call("get_alias_attribute", alias_name, "", <<>>, "")
    /\ UNCHANGED <<treeVars, aliases, class_name_2_node, devices_info, req>>

\* the errors the facade raises through th_exc
TypedErrors == {"DB_SQLError", "DB_DeviceNotDefined", "DB_IncorrectArguments"}

NextAttrAlias ==
    \/ \E x \in AttributeNames, a \in AttributeAliases : put_attribute_alias(x, a)
    \/ \E a \in AttributeAliases : delete_attribute_alias(a)
    \/ \E a \in AttributeAliases : get_attribute_alias(a)
    \/ \E a \in AttributeAliases : get_alias_attribute(a)

SpecAttrAlias == Init /\ [][NextAttrAlias]_vars

-----------------------------------------------------------------------------
(* The facade: unexport *)

\* dbapi.unexport_device: the record stored under dev_name as given is
\* cleared (and created first when there is none)
unexport_device_call(di, dev_name) ==
    LET di1 == get_exported_device_info(di, dev_name)
    IN  [di1 EXCEPT ![InfoAt(di1, dev_name)].info = EmptyInfo]

unexport_device(dev_name) ==
    /\ Counted
    /\ devices_info' = unexport_device_call(devices_info, dev_name)
    /\ last' = Call("unexport_device", dev_name, "", <<>>, "")
    /\ UNCHANGED <<treeVars, aliases, class_name_2_node, req, ret>>

\* the loop of unexport_server over the items of the server's device list
RECURSIVE UnexportItems(_, _, _)
UnexportItems(ns, di, items) ==
    IF items = <<>> THEN di
    ELSE LET tango_name == ns[Head(items)].tango_name
         IN  UnexportItems(ns,
                           IF tango_name # NONE /\ tango_name # ""
                           THEN unexport_device_call(di, tango_name) ELSE di,
                           Tail(items))

\* dbapi.unexport_server: how it ends and the runtime table after it
unexport_server_call(ns, p2n, di, server_name) ==
    LET server_node == CIGet(p2n, server_name)
    IN  IF server_node = 0 THEN [exc |-> "", info |-> di]
        ELSE IF ns[server_node].device.t = "none"
        THEN [exc |-> "TypeError", info |-> di]
        ELSE [exc |-> "", info |-> UnexportItems(ns, di, ns[server_node].device.items)]

unexport_server(server_name) ==
    /\ Counted
    /\ LET server_node == CIGet(personal_2_node, server_name)
           r == unexport_server_call(nodes, personal_2_node, devices_info, server_name)
       IN  /\ nodes' = IF server_node = 0 THEN nodes
                       ELSE [nodes EXCEPT ![server_node].device = Wrapped(@)]
           /\ devices_info' = r.info
           /\ last' = Call("unexport_server", server_name, "", <<>>, r.exc)
    /\ UNCHANGED <<pmaps, strong_node_ref, personal_2_node, tango_name_2_node,
                   property_attr_device, aliases, class_name_2_node, req, ret>>

UnexportExports == {"a/b/c", "A/B/F", "x/y/z"}
UnexportArgs    == {"a/b/c", "A/B/C", "a/b/f"}
UnexportServers == {"Srv/1", "No/1"}

NextUnexport ==
    \/ \E d \in UnexportExports : export_device(d, "IOR:1", "host1", "3", "5")
    \/ \E d \in UnexportArgs : unexport_device(d)
    \/ \E s \in UnexportServers : unexport_server(s)
    \/ \E d \in UnexportExports : get_device_info(d)
    \/ add_device("Srv/1", "X/Y/Z", "MyClass", NONE)
    \/ delete_server("Srv/1")

SpecUnexport == Init /\ [][NextUnexport]_vars

-----------------------------------------------------------------------------
(* The constructor, document by document *)

\* node.get(key): None for a key the document does not have
DocGet(doc, key) == IF key \in DOMAIN doc THEN doc[key] ELSE NONE

\* documents that are not what the parsers expect
NoPersonalDoc ==
    [server |-> "X", device |-> << DocDevice("x/y/z", "C", NONE, "none", "", <<>>) >>]
NoServerDoc ==
    [server |-> NONE, personal_name |-> "1",
     device |-> << DocDevice("x/y/z", "C", NONE, "none", "", <<>>) >>]
NoDeviceDoc == [server |-> "X", personal_name |-> "1"]
OtherDoc    == [content |-> "unsupported"]

BadDocs == {NoPersonalDoc, NoServerDoc, NoDeviceDoc, OtherDoc}

LoadForests ==
    { <<>>, <<PlainDoc, ClassDoc>> }
    \cup { <<bad, PlainDoc>> : bad \in BadDocs }
    \cup { <<PlainDoc, bad>> : bad \in BadDocs }

\* the indexes and the heap as one record
SourceOf(ns, pms, strong, p2n, tn2n) ==
    [nodes |-> ns, pmaps |-> pms, strong |-> strong, personal |-> p2n, tango |-> tn2n]

\* _parse_node on one document of the root list.  A server document
\* without a server value is logged and left; one without a device list is
\* indexed and retained, then the loop over None raises.
parse_node_call(st, cn2n, doc) ==
    IF "server" \in DOMAIN doc
    THEN IF doc.server = NONE
         THEN [exc |-> "", src |-> st, index |-> cn2n]
         ELSE IF "device" \notin DOMAIN doc
         THEN LET s == ParseTangoServer(st, [server |-> doc.server,
                                             personal_name |-> DocGet(doc, "personal_name"),
                                             device |-> <<>>])
              IN  [exc |-> "TypeError",
                   src |-> [s EXCEPT !.nodes[Len(st.nodes) + 1].device = NoList],
                   index |-> cn2n]
         ELSE [exc |-> "",
               src |-> ParseTangoServer(st, [server |-> doc.server,
                                             personal_name |-> DocGet(doc, "personal_name"),
                                             device |-> doc.device]),
               index |-> cn2n]
    ELSE IF "class" \in DOMAIN doc
    THEN [exc |-> "", src |-> st, index |-> (CIK(doc.class) :> doc) @@ cn2n]
    ELSE [exc |-> "", src |-> st, index |-> cn2n]

Loading == req.op = "load" /\ req.pc = "parse"

\* one turn of the loop of _parse_node over the root list
parse_node ==
    /\ Loading
    /\ req.args # <<>>
    /\ LET r == parse_node_call(SourceOf(nodes, pmaps, strong_node_ref,
                                         personal_2_node, tango_name_2_node),
                                class_name_2_node, Head(req.args))
       IN  /\ nodes' = r.src.nodes
           /\ pmaps' = r.src.pmaps
           /\ strong_node_ref' = r.src.strong
           /\ personal_2_node' = r.src.personal
           /\ tango_name_2_node' = r.src.tango
           /\ class_name_2_node' = r.index
           /\ req' = [req EXCEPT !.args = Tail(@),
                                 !.pc = IF r.exc = "" THEN "parse" ELSE "raised"]
           /\ last' = Call("_parse_node", "", "", <<>>, r.exc)
    /\ UNCHANGED <<property_attr_device, aliases, calls, devices_info, ret>>

\* the root list is done: _bootstrap_db, and the constructor returns
bootstrap_db ==
    /\ Loading
    /\ req.args = <<>>
    /\ LET s == BootstrapDb(SourceOf(nodes, pmaps, strong_node_ref,
                                     personal_2_node, tango_name_2_node),
                            req.list.items[1])
       IN  /\ nodes' = s.nodes
           /\ pmaps' = s.pmaps
           /\ strong_node_ref' = s.strong
           /\ personal_2_node' = s.personal
           /\ tango_name_2_node' = s.tango
    /\ req' = NoRequest
    /\ last' = Call("_bootstrap_db", "", "", <<>>, "")
    /\ UNCHANGED <<property_attr_device, aliases, calls, class_name_2_node,
                   devices_info, ret>>

\* DataSource.__init__ after _init_db: the indexes are empty and the root
\* list is to be parsed
LoadInit ==
    \E forest \in LoadForests, id \in Identities :
        /\ nodes = <<>>
        /\ pmaps = <<>>
        /\ strong_node_ref = {}
        /\ personal_2_node = EmptyDict
        /\ tango_name_2_node = EmptyDict
        /\ property_attr_device = EmptyDict
        /\ aliases = EmptyDict
        /\ last = NoCall
        /\ calls = 0
        /\ class_name_2_node = EmptyDict
        /\ devices_info = <<>>
        /\ req = [NoRequest EXCEPT !.op = "load", !.pc = "parse", !.args = forest,
                                   !.list = RawList(<<id>>)]
        /\ ret = <<>>

LoadLookups == {"A/B/F", "x/y/z", "sys/database/2"}
LoadServers == {"Srv/1", "X/None"}

NextLoad ==
    \/ parse_node
    \/ bootstrap_db
    \/ Idle /\ \E d \in LoadLookups : get_class_for_device(d)
    \/ Idle /\ \E s \in LoadServers : get_device_list(s, "*")
    \/ Idle /\ add_device("Srv/1", "N/e/w", "MyClass", NONE)

SpecLoad == LoadInit /\ [][NextLoad]_vars

-----------------------------------------------------------------------------
(* The facade: domain, family and member lists *)

\* the characters of the modelled names in code point order
CodePoints == "*-./0123456789ABCDEFGHIJKLMNOPQRSTUVWXYZ_abcdefghijklmnopqrstuvwxyz"

Ord(c) == CHOOSE i \in 1..Len(CodePoints) : SubSeq(CodePoints, i, i) = c

\* a < b on str
RECURSIVE StrLess(_, _)
StrLess(a, b) ==
    IF b = "" THEN FALSE
    ELSE IF a = "" THEN TRUE
    ELSE IF Head(a) = Head(b) THEN StrLess(Tail(a), Tail(b))
    ELSE Ord(Head(a)) < Ord(Head(b))

\* list.sort() on the elements of a set of str
RECURSIVE SortedList(_)
SortedList(S) ==
    IF S = {} THEN <<>>
    ELSE LET m == CHOOSE x \in S : \A y \in S \ {x} : StrLess(x, y)
         IN  <<m>> \o SortedList(S \ {m})

\* list(set(...)): the elements once each, in an order the set decides
Orderings(S) ==
    { s \in [1..Cardinality(S) -> S] : \A i, j \in 1..Cardinality(S) : s[i] = s[j] => i = j }

\* [n.get("tango_name") for n in tango_name_2_node.values()]
IndexedTangoNames(ns, tn2n) ==
    LET keys == KeyList(DOMAIN tn2n)
    IN  [i \in 1..Len(keys) |-> ns[tn2n[keys[i]]].tango_name]

\* the names whose split has no part at position `at` (0: the last part)
TooShort(names, at) == \E i \in 1..Len(names) : Len(Split(names[i], "/")) < at

PartsAt(names, at) ==
    { LET p == Split(names[i], "/") IN p[IF at = 0 THEN Len(p) ELSE at] :
        i \in 1..Len(names) }

\* dbapi.get_device_domain_list: the set of first parts, sorted
get_device_domain_list(wildcard) ==
    /\ Counted
    /\ ret' = SortedList(PartsAt(list_filter(wildcard,
                                            IndexedTangoNames(nodes, tango_name_2_node)), 1))
    /\ last' = Call("get_device_domain_list", wildcard, "", <<>>, "")
    /\ UNCHANGED <<treeVars, aliases, class_name_2_node, devices_info, req>>

\* dbapi.get_device_family_list: the set of second parts as a list
get_device_family_list(wildcard) ==
    /\ Counted
    /\ LET names == list_filter(wildcard, IndexedTangoNames(nodes, tango_name_2_node))
       IN  IF TooShort(names, 2)
           THEN /\ ret' = <<>>
                /\ last' = Call("get_device_family_list", wildcard, "", <<>>, "IndexError")
           ELSE /\ ret' \in Orderings(PartsAt(names, 2))
                /\ last' = Call("get_device_family_list", wildcard, "", <<>>, "")
    /\ UNCHANGED <<treeVars, aliases, class_name_2_node, devices_info, req>>

\* dbapi.get_device_member_list: the set of last parts of the keys as a list
get_device_member_list(wildcard) ==
    /\ Counted
    /\ ret' \in Orderings(PartsAt(list_filter(Lower(wildcard),
                                              KeyList(DOMAIN tango_name_2_node)), 0))
    /\ last' = Call("get_device_member_list", wildcard, "", <<>>, "")
    /\ UNCHANGED <<treeVars, aliases, class_name_2_node, devices_info, req>>

PartWildcards == {"*", "a/*"}
MemberWildcards == {"a/b/*", "*/y/*"}

NextParts ==
    \/ \E n \in {"z/y/x", "a/y/w"} : add_device("Srv/1", n, "MyClass", NONE)
    \/ \E d \in {"a/b/c", "z/y/x"} : delete_device(d)
    \/ \E w \in PartWildcards : get_device_domain_list(w)
    \/ \E w \in PartWildcards : get_device_family_list(w)
    \/ \E w \in MemberWildcards : get_device_member_list(w)

SpecParts == Init /\ [][NextParts]_vars

-----------------------------------------------------------------------------
(* The facade: class inheritance *)

\* iterating a str: its characters, one by one
Chars(s) == [i \in 1..Len(s) |-> SubSeq(s, i, i)]

\* dbapi.get_class_inheritance_for_device: get_class_property is handed the
\* str "InheritedFrom" where it loops over a list of names, and the result
\* is cut after its first four fields
get_class_inheritance_for_device_call(ns, tn2n, cn2n, dev_name) ==
    LET c == get_class_for_device_call(ns, tn2n, dev_name)
    IN  IF c.exc # "" THEN [exc |-> c.exc, ret |-> <<>>]
        ELSE LET props == get_class_property_ret(cn2n, c.ret, Chars("InheritedFrom"))
             IN  [exc |-> "", ret |-> <<c.ret>> \o SubSeq(props, 5, Len(props))]

get_class_inheritance_for_device(dev_name) ==
    /\ Counted
    /\ LET r == get_class_inheritance_for_device_call(nodes, tango_name_2_node,
                                                      class_name_2_node, dev_name)
       IN  /\ ret' = r.ret
           /\ last' = Call("get_class_inheritance_for_device", dev_name, "", <<>>, r.exc)
    /\ UNCHANGED <<treeVars, aliases, class_name_2_node, devices_info, req>>

InheritDevices == {"a/b/c", "A/B/F", "x/y/z"}
InheritBags    == { <<"InheritedFrom", "2", "Base", "Root">>, <<"n", "1", "5">> }

NextInherit ==
    \/ \E c \in {"C", "MyClass"}, bag \in InheritBags : put_class_property(c, 1, bag)
    \/ \E d \in InheritDevices : get_class_inheritance_for_device(d)
    \/ \E c \in {"C", "MyClass"} : get_class_property(c, <<"InheritedFrom">>)
    \/ add_device("Srv/1", "x/y/z", "MyClass", NONE)

SpecInherit == Init /\ [][NextInherit]_vars

-----------------------------------------------------------------------------
(* Node: reading a key that holds a plain dict *)

\* Node.__getitem__("properties") on node n: a plain dict found under the
\* key is wrapped in a new Node that replaces it, and the call returns
\* `value2`: the wrapper.  A missing key is a KeyError.
NodeGetItemProperties(ns, pms, n) ==
    LET p == ns[n].properties
    IN  IF p.t = "none" THEN Got("KeyError", p, ns, pms)
        ELSE IF p.t = "raw"
        THEN Got("", NodeProps(Len(pms) + 1),
                 [ns EXCEPT ![n].properties = NodeProps(Len(pms) + 1)],
                 Append(pms, pms[p.map]))
        ELSE Got("", p, ns, pms)

\* the object a read hands back: its kind and, for a dict or a Node, which one
Handle(val) == <<val.t, val.map>>

\* device_node.get("properties") for an indexed device
Node_get(dev_name) ==
    /\ Counted
    /\ CIHas(tango_name_2_node, dev_name)
    /\ LET g == NodeGetProperties(nodes, pmaps, CIGet(tango_name_2_node, dev_name))
       IN  /\ nodes' = g.nodes
           /\ pmaps' = g.pmaps
           /\ ret' = Handle(g.val)
           /\ last' = Call("Node.get", dev_name, "properties", <<>>, g.exc)
    /\ UNCHANGED <<strong_node_ref, personal_2_node, tango_name_2_node,
                   property_attr_device, aliases,
                   class_name_2_node, devices_info, req>>

\* device_node["properties"] for an indexed device
Node_getitem(dev_name) ==
    /\ Counted
    /\ CIHas(tango_name_2_node, dev_name)
    /\ LET g == NodeGetItemProperties(nodes, pmaps, CIGet(tango_name_2_node, dev_name))
       IN  /\ nodes' = g.nodes
           /\ pmaps' = g.pmaps
           /\ ret' = IF g.exc = "" THEN Handle(g.val) ELSE <<>>
           /\ last' = Call("Node.__getitem__", dev_name, "properties", <<>>, g.exc)
    /\ UNCHANGED <<strong_node_ref, personal_2_node, tango_name_2_node,
                   property_attr_device, aliases,
                   class_name_2_node, devices_info, req>>

\* value[k] = v on the dict or Node the previous read handed back
value_setitem(k, v) ==
    /\ Counted
    /\ last.op \in {"Node.get", "Node.__getitem__"}
    /\ last.exc = ""
    /\ ret[1] \in {"raw", "node"}
    /\ pmaps' = [pmaps EXCEPT ![ret[2]] = MapSet(@, PropEntry(k, TRUE, <<v>>))]
    /\ last' = Call("value.__setitem__", last.a, k, <<v>>, "")
    /\ UNCHANGED <<nodes, strong_node_ref, personal_2_node, tango_name_2_node,
                   property_attr_device, aliases, ret,
                   class_name_2_node, devices_info, req>>

NodeDevices == {"a/b/c", "a/b/d", "a/b/e"}

NextNode ==
    \/ \E d \in NodeDevices : Node_get(d)
    \/ \E d \in NodeDevices : Node_getitem(d)
    \/ \E k \in {"p", "q"}, v \in {"1", "7"} : value_setitem(k, v)
    \/ \E d \in NodeDevices : get_device_property(d, <<"p", "q">>)

SpecNode == Init /\ [][NextNode]_vars

-----------------------------------------------------------------------------
(* The facade: lists filtered by class, instances of an executable *)

\* the loop of get_exported_device_list_for_class over the exported names
RECURSIVE ExportedOfClass(_, _, _, _)
ExportedOfClass(ns, tn2n, names, re) ==
    IF names = <<>> THEN <<>>
    ELSE LET dev_node == CIGet(tn2n, Head(names))
         IN  (IF dev_node # 0 /\ ReMatch(re, GetOr(ns[dev_node], "class", ""))
              THEN <<Head(names)>> ELSE <<>>)
             \o ExportedOfClass(ns, tn2n, Tail(names), re)

\* dbapi.get_exported_device_list_for_class
get_exported_device_list_for_class(wildcard) ==
    /\ Counted
    /\ ret' = ExportedOfClass(nodes, tango_name_2_node,
                              list_filter("*", InfoKeys(devices_info)),
                              Replace(wildcard, "*", ".*"))
    /\ last' = Call("get_exported_device_list_for_class", wildcard, "", <<>>, "")
    /\ UNCHANGED <<treeVars, aliases, class_name_2_node, devices_info, req>>

\* names[1] of server.split("/") for every server of the list
InstanceNames(server_list) ==
    [i \in 1..Len(server_list) |-> Split(server_list[i], "/")[2]]

\* dbapi.get_instance_name_list
get_instance_name_list(server_name) ==
    /\ Counted
    /\ ret' = InstanceNames(list_filter(server_name \o "*",
                                        KeyList(DOMAIN personal_2_node)))
    /\ last' = Call("get_instance_name_list", server_name, "", <<>>, "")
    /\ UNCHANGED <<treeVars, aliases, class_name_2_node, devices_info, req>>

MatchAdds ==
    { <<"Motor/1", "m/o/t", "C">>, <<"MotorSim/2", "m/s/i", "CX">>,
      <<"Srv/1", "x/y/z", "CX">> }
MatchServers   == {"Srv/1", "MotorSim/2"}
MatchClasses   == {"C", "CX", "c*"}
MatchExports   == {"a/b/c", "x/y/z", "m/s/i"}
MatchExecutables == {"Motor", "MotorSim", "Srv"}

NextMatch ==
    \/ \E a \in MatchAdds : add_device(a[1], a[2], a[3], NONE)
    \/ \E s \in MatchServers, c \in MatchClasses : get_device_list(s, c)
    \/ \E d \in MatchExports : export_device(d, "IOR:1", "host1", "3", "5")
    \/ \E c \in MatchClasses : get_exported_device_list_for_class(c)
    \/ \E e \in MatchExecutables : get_instance_name_list(e)

SpecMatch == Init /\ [][NextMatch]_vars

-----------------------------------------------------------------------------
(* The facade: attribute properties of a device *)

\* YamlDataSource.get_property_attr_device: the table after the call and the
\* Node the caller gets, built from the stored plain dict
get_property_attr_device(pad, dev_name) ==
    LET pad1 == TouchPropertyAttr(pad, dev_name)
    IN  [pad |-> pad1, attrs |-> pad1[PropertyAttrKey(dev_name)]]

\* the inner loop of put_device_attribute_property2: prop_nb groups of
\* (name, count, v1..v_count) starting after position attr_id
RECURSIVE DecodeAttrProps(_, _, _, _)
DecodeAttrProps(new_values, attr_prop_list, attr_id, prop_nb) ==
    IF prop_nb = 0 THEN [new_values |-> new_values, attr_id |-> attr_id]
    ELSE LET prop_name == attr_prop_list[attr_id + 1]
             nb        == ParseInt(attr_prop_list[attr_id + 2])
             prop_values == SubSeq(attr_prop_list, attr_id + 3, attr_id + 2 + nb)
         IN  DecodeAttrProps(MapSet(new_values, PropEntry(prop_name, nb = 1, prop_values)),
                             attr_prop_list, attr_id + 2 + nb, prop_nb - 1)

\* the outer loop: prop_attr_device[attr_name] = new_values, per attribute
RECURSIVE PutAttrBag(_, _, _, _)
PutAttrBag(attrs, nb_attributes, attr_prop_list, attr_id) ==
    IF nb_attributes = 0 THEN attrs
    ELSE LET attr_name == attr_prop_list[attr_id + 1]
             d == DecodeAttrProps(<<>>, attr_prop_list, attr_id + 2,
                                  ParseInt(attr_prop_list[attr_id + 2]))
         IN  PutAttrBag(MapSet(attrs, [k |-> attr_name, props |-> d.new_values]),
                        nb_attributes - 1, attr_prop_list, d.attr_id)

\* dbapi.put_device_attribute_property2: the assignments go to the Node that
\* get_property_attr_device returned, the table keeps the dict it stored
put_device_attribute_property2_call(pad, device_name, nb_attributes, attr_prop_list) ==
    LET g == get_property_attr_device(pad, device_name)
    IN  [pad |-> g.pad,
         prop_attr_device |-> PutAttrBag(g.attrs, nb_attributes, attr_prop_list, 0)]

put_device_attribute_property2(device_name, nb_attributes, attr_prop_list) ==
    /\ Called
    /\ property_attr_device' =
           put_device_attribute_property2_call(property_attr_device, device_name,
                                               nb_attributes, attr_prop_list).pad
    /\ last' = Call("put_device_attribute_property2", device_name, "", attr_prop_list, "")
    /\ UNCHANGED <<nodes, pmaps, strong_node_ref, personal_2_node, tango_name_2_node,
                   aliases>>

\* what get_device_attribute_property2 appends for the properties of one attribute
RECURSIVE EncodeAttrProps(_)
EncodeAttrProps(prop_attr) ==
    IF prop_attr = <<>> THEN <<>>
    ELSE LET e == Head(prop_attr)
         IN  (IF e.scalar THEN <<e.k, "1", e.vals[1]>>
              ELSE <<e.k, ToStr(Len(e.vals))>> \o e.vals)
             \o EncodeAttrProps(Tail(prop_attr))

RECURSIVE EncodeAttributes(_, _)
EncodeAttributes(prop_attr_device, attributes) ==
    IF attributes = <<>> THEN <<>>
    ELSE LET attr_name == Head(attributes)
         IN  (IF ~HasKey(prop_attr_device, attr_name) THEN <<attr_name, "0">>
              ELSE LET prop_attr == Entry(prop_attr_device, attr_name).props
                   IN  <<attr_name, ToStr(Len(prop_attr))>> \o EncodeAttrProps(prop_attr))
             \o EncodeAttributes(prop_attr_device, Tail(attributes))

\* dbapi.get_device_attribute_property2
get_device_attribute_property2(dev_name, attributes) ==
    /\ Counted
    /\ LET g == get_property_attr_device(property_attr_device, dev_name)
       IN  /\ property_attr_device' = g.pad
           /\ ret' = <<dev_name, ToStr(Len(attributes))>>
                     \o EncodeAttributes(g.attrs, attributes)
    /\ last' = Call("get_device_attribute_property2", dev_name, "", attributes, "")
    /\ UNCHANGED <<nodes, pmaps, strong_node_ref, personal_2_node, tango_name_2_node,
                   aliases, class_name_2_node, devices_info, req>>

\* dbapi.get_device_attribute_list
get_device_attribute_list(dev_name, attribute) ==
    /\ Counted
    /\ LET g == get_property_attr_device(property_attr_device, dev_name)
       IN  /\ property_attr_device' = g.pad
           /\ ret' = list_filter(attribute, Keys(g.attrs))
    /\ last' = Call("get_device_attribute_list", dev_name, attribute, <<>>, "")
    /\ UNCHANGED <<nodes, pmaps, strong_node_ref, personal_2_node, tango_name_2_node,
                   aliases, class_name_2_node, devices_info, req>>

AttrPropDevices == {"a/b/c", "x/y/z", "A/B/C"}
AttrPropBags ==
    { <<"a", "1", "p", "1", "v1">>, <<"a", "1", "p", "2", "v1", "v2">> }

NextAttrProp ==
    \/ \E d \in AttrPropDevices, bag \in AttrPropBags :
          put_device_attribute_property2(d, 1, bag)
    \/ \E d \in AttrPropDevices : get_device_attribute_property2(d, <<"a">>)
    \/ \E d \in AttrPropDevices : get_device_attribute_list(d, "*")

SpecAttrProp == Init /\ [][NextAttrProp]_vars

-----------------------------------------------------------------------------
(* Two add_device handlers on one data source *)

RaceServers == {"Srv/1", "Other/1"}

\* one add_device runs statement by statement; a second handler's
\* add_device, and the readers' calls, run between its statements
NextRace ==
    \/ \E s \in RaceServers, c \in ClassNames : add_device_enter(s, "X/Y/Z", c, NONE)
    \/ add_device_index_server
    \/ add_device_index_dserver
    \/ add_device_create_device
    \/ add_device_append
    \/ add_device_store
    \/ add_device_index_device
    \/ \E s \in RaceServers : add_device(s, "x/y/z", "MyClass", NONE)
    \/ \E s \in RaceServers : get_device_list(s, "*")

SpecRace == Init /\ [][NextRace]_vars

-----------------------------------------------------------------------------
(* Properties of the data source *)

\* the "properties" of an indexed device hold a property map: no key, an
\* inline map, or a reference that resolves to a map
HasPropertyBlock(ns, pms, tn2n, dev_name) ==
    /\ CIHas(tn2n, Lower(dev_name))
    /\ LET p == ns[CIGet(tn2n, Lower(dev_name))].properties
       IN  \/ p.t \in {"none", "raw", "node"}
           \/ /\ p.t = "str"
              /\ LET r == ResolveReference(ns, pms, tn2n, p.ref)
                 IN  r.exc = "" /\ r.val.t \in {"raw", "node"}

\* C1: put_device_property(D, 1, [p, n, v1..vn]) on an indexed device (no
\* properties key, an inline map, or a resolvable reference) ends without
\* error, and get_device_property(D, [p]) then returns [D, "1", p, n, v1..vn].
C1_PutGetRoundTrip ==
    [][ ( /\ last'.op = "put_device_property"
          /\ HasPropertyBlock(nodes, pmaps, tango_name_2_node, last'.a) )
        => /\ last'.exc = ""
           /\ get_device_property_call(nodes', pmaps', tango_name_2_node',
                                       last'.a, <<last'.bag[1]>>)
                = [exc |-> "", ret |-> <<last'.a, "1">> \o last'.bag,
                   nodes |-> nodes', pmaps |-> pmaps'] ]_vars

\* the devices other than dev_name whose "properties" is the same reference
SharingWith(ns, tn2n, dev_name) ==
    LET d == CIGet(tn2n, Lower(dev_name))
    IN  { k \in DOMAIN tn2n : /\ tn2n[k] # d
                              /\ ns[tn2n[k]].properties.t = "str"
                              /\ ns[tn2n[k]].properties = ns[d].properties }

\* C2: when D1 and D2 hold the same reference that resolves to the property
\* map of a target, put_device_property(D1, 1, [p, "1", v]) changes the
\* target's map: get_device_property(D2, [p]) returns v and the map the
\* target holds has p = v.
C2_ReferenceSharing ==
    [][ ( /\ last'.op = "put_device_property"
          /\ last'.bag[2] = "1"
          /\ HasPropertyBlock(nodes, pmaps, tango_name_2_node, last'.a)
          /\ nodes[CIGet(tango_name_2_node, Lower(last'.a))].properties.t = "str"
          /\ SharingWith(nodes, tango_name_2_node, last'.a) # {} )
        => LET ref    == nodes[CIGet(tango_name_2_node, Lower(last'.a))].properties.ref
               target == CIGet(tango_name_2_node, Split(ref, "/")[1])
               held   == nodes'[target].properties
           IN  /\ \A d2 \in SharingWith(nodes, tango_name_2_node, last'.a) :
                     get_device_property_call(nodes', pmaps', tango_name_2_node',
                                              d2, <<last'.bag[1]>>).ret
                       = <<d2, "1">> \o last'.bag
               /\ held.t \in {"raw", "node"}
               /\ HasKey(pmaps'[held.map], last'.bag[1])
               /\ Entry(pmaps'[held.map], last'.bag[1]).vals = <<last'.bag[3]>> ]_vars

\* C3: delete_device(D) takes the device node out of every key of the
\* entity index: afterwards get_class_for_device(D) fails and get_alias_device
\* fails for every key the node was indexed under.
C3_DeleteRemovesEveryKey ==
    [][ ( /\ last'.op = "delete_device"
          /\ CIHas(tango_name_2_node, Lower(last'.a))
          /\ nodes[CIGet(tango_name_2_node, Lower(last'.a))].parent # 0 )
        => /\ get_class_for_device_call(nodes', tango_name_2_node', last'.a).exc # ""
           /\ \A k \in DOMAIN tango_name_2_node :
                 tango_name_2_node[k] = CIGet(tango_name_2_node, Lower(last'.a))
                 => get_alias_device_call(nodes', tango_name_2_node', k).exc # "" ]_vars

\* C4: delete_device(D) takes the device out of the device list of its
\* server: the name of D is returned neither by get_device_list(S, "*") nor
\* by get_device_class_list(S).
C4_DeleteDetachesFromServer ==
    [][ ( /\ last'.op = "delete_device"
          /\ CIHas(tango_name_2_node, Lower(last'.a))
          /\ nodes[CIGet(tango_name_2_node, Lower(last'.a))].parent # 0 )
        => LET d == CIGet(tango_name_2_node, Lower(last'.a))
           IN  \A s \in DOMAIN personal_2_node' :
                 personal_2_node'[s] = nodes[d].parent
                 => /\ ~InSeq(nodes[d].tango_name,
                             get_device_list_ret(nodes', personal_2_node', s, "*"))
                    /\ ~InSeq(nodes[d].tango_name,
                             get_device_class_list_call(nodes', personal_2_node', s).ret) ]_vars

\* C5: the server index maps <exe>/<instance> to a node exactly when the
\* entity index maps dserver/<exe>/<instance> to the same node.
C5_ServerIndexLockstep ==
    /\ \A s \in DOMAIN personal_2_node :
          /\ ("dserver/" \o s) \in DOMAIN tango_name_2_node
          /\ tango_name_2_node["dserver/" \o s] = personal_2_node[s]
    /\ \A k \in DOMAIN tango_name_2_node :
          StartsWith(k, "dserver/")
          => /\ SubSeq(k, 9, Len(k)) \in DOMAIN personal_2_node
             /\ personal_2_node[SubSeq(k, 9, Len(k))] = tango_name_2_node[k]

\* C6: rename_server(old, new) with `new` a key of the entity index fails
\* and changes nothing.
C6_RenameToExistingFails ==
    [][ ( /\ last'.op = "rename_server"
          /\ CIHas(tango_name_2_node, last'.b) )
        => /\ last'.exc = "DB_SQLError"
           /\ UNCHANGED treeVars ]_vars

C6_Witness ==
    /\ last.op = "rename_server"
    /\ last.exc = "DB_SQLError"
    /\ CIHas(tango_name_2_node, last.a)
    /\ CIHas(tango_name_2_node, last.b)
    /\ CIGet(tango_name_2_node, last.a) # CIGet(tango_name_2_node, last.b)

\* the values get_device_property reports, without the name it was asked for
PropertyValues(r) == [exc |-> r.exc, values |-> SubSeq(r.ret, 2, Len(r.ret))]

\* C7: rename_server(old, new) of an indexed device to a name that is not
\* indexed: old no longer resolves, new resolves to the same node, whose
\* tango_name is new, and get_device_property(new, ps) returns the values
\* get_device_property(old, ps) returned before.
C7_RenameMovesDevice ==
    [][ ( /\ last'.op = "rename_server"
          /\ CIHas(tango_name_2_node, last'.a)
          /\ ~CIHas(tango_name_2_node, last'.b) )
        => LET n == CIGet(tango_name_2_node, last'.a)
           IN  /\ last'.exc = ""
               /\ ~CIHas(tango_name_2_node', last'.a)
               /\ CIGet(tango_name_2_node', last'.b) = n
               /\ nodes'[n].tango_name = last'.b
               /\ \A p \in QueryNames :
                     PropertyValues(get_device_property_call(
                         nodes', pmaps', tango_name_2_node', last'.b, <<p>>))
                     = PropertyValues(get_device_property_call(
                         nodes, pmaps, tango_name_2_node, last'.a, <<p>>)) ]_vars

C7_Witness ==
    /\ last.op = "rename_server"
    /\ last.exc = ""
    /\ ~CIHas(tango_name_2_node, last.a)
    /\ get_device_property_call(nodes, pmaps, tango_name_2_node, last.b, <<"q">>).ret
         = <<last.b, "1", "q", "1", "1">>

\* C8: add_device(S, (N, _), C, alias=A) for a name N that is not indexed
\* indexes the device under N and under A: get_alias_device(A) returns
\* lower-case N and get_class_for_device(N) returns C.
C8_AddDeviceIndexesAlias ==
    [][ ( /\ last'.op = "add_device"
          /\ last'.bag[2] # NONE
          /\ ~CIHas(tango_name_2_node, Lower(last'.b)) )
        => /\ get_alias_device_call(nodes', tango_name_2_node', last'.bag[2])
                = [exc |-> "", ret |-> Lower(last'.b)]
           /\ get_class_for_device_call(nodes', tango_name_2_node', last'.b)
                = [exc |-> "", ret |-> last'.bag[1]] ]_vars

\* C9: put_attribute_alias(y, A) with A bound to another attribute x fails
\* with the "already exists" error and A stays bound to x.
C9_AliasBoundToOtherFails ==
    [][ ( /\ last'.op = "put_attribute_alias"
          /\ last'.b \in DOMAIN aliases
          /\ aliases[last'.b] # last'.a )
        => /\ last'.exc = "DB_SQLError"
           /\ get_alias_attribute_ret(aliases', last'.b) = <<aliases[last'.b]>> ]_vars

C9_Witness ==
    /\ last.op = "put_attribute_alias"
    /\ last.exc = "DB_SQLError"
    /\ last.b \in DOMAIN aliases
    /\ aliases[last.b] # last.a

\* C10: put_attribute_alias(x, A) with A already bound to x ends without
\* error and leaves A bound to x.
C10_AliasSameNameIdempotent ==
    [][ ( /\ last'.op = "put_attribute_alias"
          /\ last'.b \in DOMAIN aliases
          /\ aliases[last'.b] = last'.a )
        => /\ last'.exc = ""
           /\ get_alias_attribute_ret(aliases', last'.b) = <<last'.a>> ]_vars

\* C11: after delete_device(D) of an indexed device, get_device_property(D,
\* [p]) fails with a not-found error instead of returning a result.
C11_GetPropertyAfterDeleteFails ==
    [][ ( /\ last'.op = "delete_device"
          /\ last'.exc = ""
          /\ CIHas(tango_name_2_node, Lower(last'.a)) )
        => \A p \in QueryNames :
              get_device_property_call(nodes', pmaps', tango_name_2_node',
                                       last'.a, <<p>>).exc # "" ]_vars

\* the two names the database registers for itself
BootstrapNames == UNION { {"sys/database/" \o i, "dserver/databaseds/" \o i} : i \in Identities }

\* dev_name has a non-empty record in the runtime table
Exported(di, dev_name) ==
    InfoHas(di, dev_name) /\ di[InfoAt(di, dev_name)].info # EmptyInfo

\* C12: after construction sys/database/<i> and dserver/databaseds/<i> are
\* configured entities: both are indexed, get_device_info on each ends
\* without error with a non-empty record, export_device is accepted for each,
\* and once both are exported get_device_exported_list("*") holds both names.
C12_BootstrapSelfRegistration ==
    [][ /\ calls = 0 => \A n \in BootstrapNames : CIHas(tango_name_2_node, n)
        /\ \A n \in BootstrapNames :
             ( Lower(last'.a) = n /\ CIHas(tango_name_2_node, n) )
             => /\ last'.op = "get_device_info"
                   => /\ last'.exc = ""
                      /\ Len(ret'[2]) = 8
                      /\ ret'[2][1] = n
                      /\ ret'[2][4] = "DataBaseds/" \o SubSeq(n, Len(n), Len(n))
                /\ last'.op = "export_device"
                   => /\ last'.exc = ""
                      /\ Exported(devices_info', n)
        /\ ( last'.op = "get_device_exported_list" /\ last'.a = "*" )
             => \A n \in BootstrapNames : Exported(devices_info, n) => InSeq(n, ret') ]_vars

C12_Witness ==
    /\ DOMAIN personal_2_node = {"databaseds/2"}
    /\ last.op = "get_device_exported_list"
    /\ \A n \in BootstrapNames : Exported(devices_info, n) /\ InSeq(n, ret)

\* C18: export_device(N, IOR, host, pid, version) for a name N that is not
\* in the entity index ends without error and the record of lower-case N in
\* the runtime table holds the IOR, host, pid and version given.
C18_ExportWithoutConfiguration ==
    [][ ( /\ last'.op = "export_device"
          /\ ~CIHas(tango_name_2_node, Lower(last'.a)) )
        => /\ last'.exc = ""
           /\ InfoHas(devices_info', Lower(last'.a))
           /\ LET info == devices_info'[InfoAt(devices_info', Lower(last'.a))].info
              IN  /\ InfoOr(info, "IOR", "") = last'.b
                  /\ InfoOr(info, "host", "") = last'.bag[1]
                  /\ InfoOr(info, "pid", -1) = ParseInt(last'.bag[2])
                  /\ InfoOr(info, "version", "") = last'.bag[3] ]_vars

\* C19: import_device(N) and get_device_info(N) for a name N that does not
\* resolve in the entity index (never configured, or exported and then
\* deleted) both fail with a not-found error.
C19_ImportRequiresConfiguration ==
    [][ ( /\ last'.op \in {"import_device", "get_device_info"}
          /\ ~CIHas(tango_name_2_node, Lower(last'.a)) )
        => last'.exc = "DB_DeviceNotDefined" ]_vars

\* C13: while rename_server(old, new) runs statement by statement between
\* the lookups of other handlers, and after it has returned, the device is
\* never indexed under old and under new at once.
C13_RenameNeverUnderBothNames ==
    req.op = "rename_server"
    => ~ ( /\ CIHas(tango_name_2_node, req.args[1])
           /\ CIHas(tango_name_2_node, req.args[2])
           /\ CIGet(tango_name_2_node, req.args[1]) = CIGet(tango_name_2_node, req.args[2]) )

\* a reader looked up the old name between the pop and the insert
C13_Witness ==
    /\ req.op = "rename_server"
    /\ req.pc \in {"name", "insert"}
    /\ req.node # 0
    /\ last.op = "get_class_for_device"
    /\ Lower(last.a) = Lower(req.args[1])
    /\ last.exc # ""
    /\ ~CIHas(tango_name_2_node, req.args[2])

\* C14: while add_device(S, N, C) runs statement by statement, a reader of
\* get_device_list(S, "*") never sees N listed while N does not resolve in
\* the entity index, and never finds S in the server index while dserver/S
\* is not in the entity index.
C14_AddDeviceAppearsAtomic ==
    [][ ( /\ last'.op = "get_device_list"
          /\ req.op = "add_device"
          /\ Lower(last'.a) = Lower(req.args[1]) )
        => /\ InSeq(req.args[2], ret') => CIHas(tango_name_2_node, req.args[2])
           /\ CIHas(personal_2_node, last'.a)
                => CIHas(tango_name_2_node, "dserver/" \o Lower(last'.a)) ]_vars

\* the wildcard match as specified: `*` stands for any sequence of
\* characters, every other character for itself, without regard to case,
\* over the whole string
RECURSIVE WildcardMatch(_, _)
WildcardMatch(pattern, s) ==
    IF pattern = "" THEN s = ""
    ELSE IF Head(pattern) = "*"
         THEN \/ WildcardMatch(Tail(pattern), s)
              \/ s # "" /\ WildcardMatch(pattern, Tail(s))
         ELSE /\ s # ""
              /\ LowerChar(Head(pattern)) = LowerChar(Head(s))
              /\ WildcardMatch(Tail(pattern), Tail(s))

RECURSIVE WildcardSelect(_, _)
WildcardSelect(pattern, l) ==
    IF l = <<>> THEN <<>>
    ELSE (IF Head(l) # NONE /\ WildcardMatch(pattern, Head(l))
          THEN <<Head(l)>> ELSE <<>>) \o WildcardSelect(pattern, Tail(l))

HasStar(pattern) == \E i \in 1..Len(pattern) : SubSeq(pattern, i, i) = "*"

\* C15: list_filter(pattern, candidates) returns exactly the non-null
\* candidates whose whole string matches the pattern without regard to case,
\* `*` standing for any sequence of characters, in the candidates' order; a
\* pattern without `*` returns only the candidates equal to it ignoring case.
C15_ListFilterWildcard ==
    last.op = "list_filter"
    => /\ ret = WildcardSelect(last.a, last.bag)
       /\ ~HasStar(last.a)
            => \A i \in 1..Len(ret) : Lower(ret[i]) = Lower(last.a)

\* C16: every pattern character other than `*` is matched literally: for a
\* pattern without `*` (with `.` in it, say) list_filter returns only the
\* candidates equal to the pattern ignoring case.
C16_ListFilterLiteralCharacters ==
    ( last.op = "list_filter" /\ ~HasStar(last.a) )
    => \A i \in 1..Len(last.bag) :
          InSeq(last.bag[i], ret)
          <=> ( last.bag[i] # NONE /\ Lower(last.bag[i]) = Lower(last.a) )

ListingOperations ==
    {"get_device_list", "get_device_class_list", "get_device_server_class_list",
     "get_server_list", "get_device_exported_list"}

\* C17: in every state reached by load, bootstrap and facade mutations
\* (delete_server and delete_device among them) a listing operation called
\* with any name or wildcard returns a sequence and raises no error.
C17_ListingsNeverRaise ==
    [][ last'.op \in ListingOperations => last'.exc = "" ]_vars

\* the groups of a bag after its two header fields: the name and the count
\* of each; a group of count "0" is followed by `pad` placeholders
RECURSIVE Groups(_, _)
Groups(bag, pad) ==
    IF Len(bag) < 2 THEN <<>>
    ELSE LET n    == ParseInt(bag[2])
             skip == IF n = 0 THEN pad ELSE n
         IN  <<[name |-> bag[1], count |-> bag[2]]>>
             \o Groups(SubSeq(bag, 3 + skip, Len(bag)), pad)

\* the bag names p with count "0", and its header counts its groups
Sentinel(bag, pad, p) ==
    \E i \in 1..Len(Groups(SubSeq(bag, 3, Len(bag)), pad)) :
        Groups(SubSeq(bag, 3, Len(bag)), pad)[i] = [name |-> p, count |-> "0"]

HeaderCounts(bag, pad) ==
    /\ Len(bag) >= 2
    /\ ParseInt(bag[2]) = Len(Groups(SubSeq(bag, 3, Len(bag)), pad))

\* the keys of the property map get_device_property reads for dev_name
DevicePropertyKeys(ns, pms, tn2n, dev_name) ==
    LET g == get_property_node(ns, pms, tn2n, dev_name)
    IN  IF g.exc = "" /\ g.val.t \in {"raw", "node"}
        THEN {g.pmaps[g.val.map][i].k : i \in 1..Len(g.pmaps[g.val.map])}
        ELSE {}

\* the device is not indexed, or its properties are absent or a map
PropertiesReadable(ns, pms, tn2n, dev_name) ==
    LET g == get_property_node(ns, pms, tn2n, dev_name)
    IN  g.exc = "" /\ g.val.t # "str"

ClassPropertyKeys(cn2n, class_name) ==
    IF CIHas(cn2n, class_name) /\ "properties" \in DOMAIN CIGet(cn2n, class_name)
    THEN {CIGet(cn2n, class_name).properties[i].k :
             i \in 1..Len(CIGet(cn2n, class_name).properties)}
    ELSE {}

C21_DeleteAbsentPropertyFails ==
    [][ ( /\ last'.op = "delete_device_property"
          /\ CIHas(tango_name_2_node, Lower(last'.a))
          /\ PropertiesReadable(nodes, pmaps, tango_name_2_node, last'.a)
          /\ last'.b \notin DevicePropertyKeys(nodes, pmaps, tango_name_2_node, last'.a) )
        => /\ last'.exc # ""
           /\ DevicePropertyKeys(nodes', pmaps', tango_name_2_node', last'.a)
                = DevicePropertyKeys(nodes, pmaps, tango_name_2_node, last'.a) ]_vars

\* C22: after put_class_property(C, 1, [p, "1", v]) followed by
\* delete_class_property(C, p), get_class_property(C, [p]) reports p with
\* count "0" and get_class_property_list(C) no longer contains p.
C22_ClassPropertyDeleteRemoves ==
    [][ ( /\ last.op = "put_class_property"
          /\ Len(last.bag) = 3 /\ last.bag[2] = "1"
          /\ last'.op = "delete_class_property"
          /\ last'.a = last.a
          /\ last'.b = last.bag[1] )
        => /\ get_class_property_ret(class_name_2_node', last'.a, <<last'.b>>)
                = <<last'.a, "1", last'.b, "0">>
           /\ ~InSeq(last'.b, get_class_property_list_ret(class_name_2_node', last'.a)) ]_vars

\* C23: put_device_alias(D2, A) when alias A is already bound to a
\* different device D1 fails with an error and leaves A bound to D1 and
\* D2's alias unchanged.
C23_DeviceAliasUnique ==
    [][ ( /\ last'.op = "put_device_alias"
          /\ CIHas(tango_name_2_node, last'.a)
          /\ CIHas(tango_name_2_node, last'.b)
          /\ CIGet(tango_name_2_node, last'.b) # CIGet(tango_name_2_node, last'.a)
          /\ nodes[CIGet(tango_name_2_node, last'.b)].alias = last'.b )
        => /\ last'.exc # ""
           /\ CIGet(tango_name_2_node', last'.b) = CIGet(tango_name_2_node, last'.b)
           /\ nodes'[CIGet(tango_name_2_node, last'.a)].alias
                = nodes[CIGet(tango_name_2_node, last'.a)].alias ]_vars

\* the device nodes that resolve under their tango name and carry alias A
BoundTo(ns, tn2n, A) ==
    { n \in 1..Len(ns) : /\ ns[n].alias = A
                         /\ ns[n].tango_name # NONE
                         /\ CIGet(tn2n, Lower(ns[n].tango_name)) = n }

\* C24: delete_device_alias(A) for an alias A bound to device D removes
\* only the binding: afterwards get_alias_device(A) and get_device_alias(D)
\* fail, and D still resolves under its tango name with unchanged class,
\* properties and membership in its server's device list.
C24_DeleteAliasRemovesOnlyBinding ==
    [][ last'.op = "delete_device_alias"
        => \A n \in BoundTo(nodes, tango_name_2_node, last'.a) :
              /\ get_alias_device_call(nodes', tango_name_2_node', last'.a).exc # ""
              /\ get_device_alias_call(nodes', tango_name_2_node',
                                       nodes[n].tango_name).exc # ""
              /\ CIGet(tango_name_2_node', Lower(nodes[n].tango_name)) = n
              /\ nodes'[n].class = nodes[n].class
              /\ nodes'[n].properties = nodes[n].properties
              /\ pmaps' = pmaps
              /\ nodes[n].parent # 0
                   => nodes'[nodes[n].parent].device = nodes[nodes[n].parent].device ]_vars

\* C25: after put_attribute_alias(x, A) succeeds, get_attribute_alias(A)
\* returns x; for an alias that is not bound, get_attribute_alias fails
\* with the typed not-found error of the facade.
C25_AttributeAliasLookup ==
    [][ last'.op = "get_attribute_alias"
        => IF last'.a \in DOMAIN aliases
           THEN last'.exc = "" /\ ret' = <<aliases[last'.a]>>
           ELSE last'.exc \in TypedErrors ]_vars

\* get_device_info(dev_name) reports exported flag 0 and an empty IOR
NotExported(ns, tn2n, di, dev_name) ==
    LET r == get_device_info_call(ns, tn2n, di, dev_name)
    IN  /\ r.exc = ""
        /\ r.ret[1] # <<>>
        /\ r.ret[1][1] = 0
        /\ r.ret[2][2] = ""

\* C26: names that differ only in letter case are the same entity:
\* export_device(N, ...) followed by unexport_device(N') leaves the device
\* not exported (get_device_info(N) reports flag 0 and an empty IOR).
C26_UnexportIgnoresCase ==
    [][ ( /\ last.op = "export_device" /\ last.exc = ""
          /\ last'.op = "unexport_device"
          /\ Lower(last'.a) = Lower(last.a) )
        => NotExported(nodes', tango_name_2_node', devices_info', last.a) ]_vars

\* C27: after unexport_server(S) for an indexed server S, every device of
\* S's device list has an empty runtime record: get_device_info of that
\* device reports exported flag 0.
C27_UnexportServerCascades ==
    [][ ( /\ last'.op = "unexport_server"
          /\ CIHas(personal_2_node, last'.a)
          /\ nodes[CIGet(personal_2_node, last'.a)].device.t # "none" )
        => /\ last'.exc = ""
           /\ LET items == nodes[CIGet(personal_2_node, last'.a)].device.items
              IN  \A i \in 1..Len(items) :
                     ( /\ nodes[items[i]].tango_name # NONE
                       /\ CIHas(tango_name_2_node, Lower(nodes[items[i]].tango_name)) )
                     => NotExported(nodes', tango_name_2_node', devices_info',
                                    nodes[items[i]].tango_name) ]_vars

\* the document the constructor parses next
NextDoc == Head(req.args)

\* C28: a server-shaped document that lacks personal_name, or whose server
\* value is missing, is skipped entirely: the server index, the entity
\* index and the retention set get neither the node nor its devices.
C28_IncompleteServerSkipped ==
    [][ ( /\ Loading /\ req.args # <<>>
          /\ "server" \in DOMAIN NextDoc
          /\ (DocGet(NextDoc, "personal_name") = NONE \/ NextDoc.server = NONE) )
        => UNCHANGED <<personal_2_node, tango_name_2_node, strong_node_ref>> ]_vars

\* neither server- nor class-shaped, or server-shaped without a required key
Malformed(doc) ==
    IF "server" \in DOMAIN doc
    THEN "personal_name" \notin DOMAIN doc \/ "device" \notin DOMAIN doc
    ELSE "class" \notin DOMAIN doc

\* C29: a malformed document does not make classify raise: the documents
\* after it are still parsed and bootstrap still runs.
C29_LoadToleratesBadDocument ==
    [][ (Loading /\ req.args # <<>> /\ Malformed(NextDoc))
        => /\ last'.exc = ""
           /\ req'.op = "load" /\ req'.pc = "parse" ]_vars

\* C30: in every reachable state each node resolvable through the server
\* index or the entity index is in the retention set.
C30_IndexedNodesRetained ==
    /\ \A k \in DOMAIN personal_2_node : personal_2_node[k] \in strong_node_ref
    /\ \A k \in DOMAIN tango_name_2_node : tango_name_2_node[k] \in strong_node_ref

\* no element twice, each element below the next one
SortedNoDuplicates(l) == \A i \in 1..(Len(l) - 1) : StrLess(l[i], l[i + 1])

\* C31: get_device_domain_list, get_device_family_list and
\* get_device_member_list each return a list without duplicates that is
\* sorted in ascending order.
C31_PartListsSortedUnique ==
    [][ last'.op \in {"get_device_domain_list", "get_device_family_list",
                      "get_device_member_list"}
        => last'.exc = "" /\ SortedNoDuplicates(ret') ]_vars

\* the values of the class property InheritedFrom of class_name, in order
InheritedFrom(cn2n, class_name) ==
    LET v == source_get_class_property(cn2n, class_name, "InheritedFrom")
    IN  IF v.found THEN v.entry.vals ELSE <<>>

\* C32: get_class_inheritance_for_device(D) for an indexed device D of class
\* C returns [C] followed by exactly the values of C's InheritedFrom class
\* property, in order (just [C] when the property is absent).
C32_InheritanceList ==
    [][ ( /\ last'.op = "get_class_inheritance_for_device"
          /\ get_class_for_device_call(nodes, tango_name_2_node, last'.a).exc = "" )
        => LET C == get_class_for_device_call(nodes, tango_name_2_node, last'.a).ret
           IN  /\ last'.exc = ""
               /\ ret' = <<C>> \o InheritedFrom(class_name_2_node, C) ]_vars

\* the map a later read of "properties" on the indexed device d sees
CachedProperties(ns, tn2n, d) == ns[CIGet(tn2n, d)].properties

\* C33: for a Node whose key holds a raw map, node.get(k) and node[k] return
\* the promoted Node cached under k, and a mutation made through the value a
\* read returned is visible to every later read of k.
C33_PromotionIdentityStable ==
    /\ [][ ( /\ last'.op \in {"Node.get", "Node.__getitem__"}
             /\ last'.exc = ""
             /\ ret'[1] \in {"raw", "node"} )
           => ret' = Handle(CachedProperties(nodes', tango_name_2_node', last'.a)) ]_vars
    /\ [][ last'.op = "value.__setitem__"
           => LET p == CachedProperties(nodes', tango_name_2_node', last'.a)
              IN  /\ HasKey(pmaps'[p.map], last'.b)
                  /\ Entry(pmaps'[p.map], last'.b).vals = last'.bag ]_vars

\* the class of the indexed device d equals C, ignoring case
ClassIs(ns, tn2n, d, C) ==
    /\ d # NONE
    /\ CIHas(tn2n, d)
    /\ ns[CIGet(tn2n, d)].class # NONE
    /\ Lower(ns[CIGet(tn2n, d)].class) = Lower(C)

\* C34: get_device_list(S, C) and get_exported_device_list_for_class(C) with
\* a pattern C without "*" return only devices whose class equals C ignoring
\* case, never devices whose class merely starts with C.
C34_ClassFilterFullMatch ==
    [][ ( /\ last'.op \in {"get_device_list", "get_exported_device_list_for_class"}
          /\ LET C == IF last'.op = "get_device_list" THEN last'.b ELSE last'.a
             IN  ~InSeq("*", Chars(C)) )
        => LET C == IF last'.op = "get_device_list" THEN last'.b ELSE last'.a
           IN  \A i \in 1..Len(ret') :
                   ClassIs(nodes, tango_name_2_node, ret'[i], C) ]_vars

\* the instances registered for the executable E: the i of every server key E/i
InstancesOf(p2n, E) ==
    { Split(k, "/")[2] : k \in { x \in DOMAIN p2n : Split(x, "/")[1] = Lower(E) } }

\* C40: get_instance_name_list(E) returns exactly the instance names i for
\* which a server E/i is registered, and no instance of another executable
\* whose name merely starts with E.
C40_InstanceNamesExact ==
    [][ last'.op = "get_instance_name_list"
        => { ret'[i] : i \in 1..Len(ret') } = InstancesOf(personal_2_node, last'.a) ]_vars

\* What get_device_property reads for the indexed name d: how the lookup
\* ends, which map object it reaches (0: none) and the entries of that map
ObservedProperties(ns, pms, tn2n, d) ==
    LET g == get_property_node(ns, pms, tn2n, d)
        isMap == g.exc = "" /\ g.val.t \in {"raw", "node"}
    IN  [exc |-> g.exc, str |-> g.exc = "" /\ g.val.t = "str",
         block |-> IF isMap THEN g.val.map ELSE 0,
         entries |-> IF isMap THEN g.pmaps[g.val.map] ELSE <<>>]

\* the value of property k in what was read, or <<>> when it has no key k
ValueAt(obs, k) == IF HasKey(obs.entries, k) THEN <<Entry(obs.entries, k)>> ELSE <<>>

\* the property names of a bag of nb_properties groups
BagNames(nb_properties, attr_prop_list) ==
    LET e == PutBag(<<>>, nb_properties, attr_prop_list, 0)
    IN  {e[i].k : i \in 1..Len(e)}

\* C35: after put_device_property(D, n, bag) the only properties whose values
\* changed are those named in bag inside D's (possibly shared) property
\* block: every other property of every device, every property of a device
\* that does not share D's block, and the three indices are unchanged.
C35_PutBoundedEffect ==
    [][ last'.op = "put_device_property"
        => LET named == BagNames(1, last'.bag)
               D     == ObservedProperties(nodes', pmaps', tango_name_2_node', last'.a)
           IN  /\ personal_2_node' = personal_2_node
               /\ tango_name_2_node' = tango_name_2_node
               /\ class_name_2_node' = class_name_2_node
               /\ \A e \in DOMAIN tango_name_2_node :
                     LET before == ObservedProperties(nodes, pmaps, tango_name_2_node, e)
                         after  == ObservedProperties(nodes', pmaps', tango_name_2_node', e)
                     IN  /\ \A k \in ({before.entries[i].k : i \in 1..Len(before.entries)}
                                      \cup {after.entries[i].k : i \in 1..Len(after.entries)})
                                     \ named :
                                ValueAt(before, k) = ValueAt(after, k)
                         /\ (after.block = 0 \/ after.block # D.block)
                                => /\ after.entries = before.entries
                                   /\ after.exc = before.exc
                                   /\ after.str = before.str ]_vars

\* a put on a device that shares its block ended without error, the block
\* has the named property next to the property q it had before
C35_Witness ==
    /\ last.op = "put_device_property"
    /\ last.exc = ""
    /\ SharingWith(nodes, tango_name_2_node, last.a) # {}
    /\ LET D == ObservedProperties(nodes, pmaps, tango_name_2_node, last.a)
       IN  /\ HasKey(D.entries, "q")
           /\ HasKey(D.entries, last.bag[1])
           /\ Len(D.entries) = 2

\* C36: put_device_attribute_property2(D, 1, [a, "1", p, str(len(v)), v...])
\* followed by get_device_attribute_property2(D, [a]) returns
\* [D, "1", a, "1", p, str(len(v)), v...], and get_device_attribute_list(D, "*")
\* then contains a.
C36_AttributePropertyRoundTrip ==
    [][ ( /\ last.op = "put_device_attribute_property2"
          /\ last'.a = last.a )
        => /\ ( last'.op = "get_device_attribute_property2" /\ last'.bag = <<last.bag[1]>> )
              => ret' = <<last.a, "1">> \o last.bag
           /\ last'.op = "get_device_attribute_list"
              => InSeq(last.bag[1], ret') ]_vars

\* the name resolves in the entity index to a device whose parent is the
\* node of server S, and get_class_for_device succeeds for it
ResolvesUnder(ns, p2n, tn2n, name, S) ==
    /\ name # NONE
    /\ CIHas(tn2n, name)
    /\ ns[CIGet(tn2n, name)].parent = p2n[S]
    /\ get_class_for_device_call(ns, tn2n, name).exc = ""

\* C37: in every state reachable by load, bootstrap, add_device,
\* delete_device, delete_device_alias, rename_server and put operations,
\* every name get_device_list(S, "*") returns for an indexed server S
\* resolves in the entity index to a device whose parent is S.
C37_DeviceListIndexConsistent ==
    \A S \in DOMAIN personal_2_node :
        LET l == get_device_list_ret(nodes, personal_2_node, S, "*")
        IN  \A i \in 1..Len(l) :
                ResolvesUnder(nodes, personal_2_node, tango_name_2_node, l[i], S)

\* export_device wrote the runtime record of N and no unexport cleared it since
CurrentlyExported(di, N) ==
    /\ InfoHas(di, N)
    /\ di[InfoAt(di, N)].info # EmptyInfo

\* C38: in every reachable state get_device_exported_list("*") contains a
\* name N only if export_device was called for N and no unexport cleared it
\* since; get_device_info(N) and unexport_device(N) on a never-exported name
\* do not add N to the list.
C38_ExportedListOnlyExported ==
    LET l == get_device_exported_list_ret(devices_info, "*")
    IN  \A i \in 1..Len(l) : CurrentlyExported(devices_info, l[i])

\* where a device node named N sits in the device lists of the indexed servers
ListedAs(ns, p2n, N) ==
    { o \in UNION { { <<p2n[k], i>> : i \in 1..Len(ns[p2n[k]].device.items) } :
                    k \in DOMAIN p2n } :
        ns[ns[o[1]].device.items[o[2]]].tango_name = N }

\* C39: when two add_device calls for the same name N have run, one between
\* the statements of the other, exactly one device node named N is in the
\* servers' device lists and the entity index maps N to that node.
C39_UniqueUnderInterleavedAdds ==
    ( /\ req.op = "add_device"
      /\ req.pc = "done"
      /\ last.op = "add_device"
      /\ last.exc = "" )
    => LET N   == req.args[2]
           occ == ListedAs(nodes, personal_2_node, N)
       IN  /\ Cardinality(occ) = 1
           /\ \A o \in occ :
                  nodes[o[1]].device.items[o[2]] = CIGet(tango_name_2_node, N)

====
